---- MODULE Spec2Model ----
(***************************************************************************)
(* Model of the data-entry application: the bulk import pipeline and the   *)
(* manual submission of pages/DataEntry.tsx, and the aggregation engine of *)
(* the analysis page.                                                      *)
(*                                                                         *)
(* JavaScript values are records [t, n, s]: t is the runtime type, n the   *)
(* numeric payload, s the characters of a string (a sequence of one-       *)
(* character strings, so that formatting and parsing are computed).        *)
(* Numbers are integers; arithmetic that the code does in floating point   *)
(* is done exactly (rationals scaled to integers).                         *)
(***************************************************************************)
EXTENDS Integers, Sequences, FiniteSets, TLC

\* ------------------------------------------------------------------ bounds

\* The rows of an uploaded sheet: 0..MaxRows.
MaxRows == 4

\* The submissions of a fetched chart dataset (the scenarios apart).
MaxPoints == 2

\* The submissions the entry page starts with.
MaxSubs == 1

\* The input changes and the handleSubmit calls of one run.
MaxInputs == 1

MaxSubmits == 2

\* The length of the raw strings that are coerced to numbers.
MaxRawLen == 3

\* The wheel and pointer-move events between two resets of the zoom.
MaxGestures == 2

\* The most fields of a form whose template is downloaded.
MaxFields == 3

\* The most fields on the form builder, and the most forms it saves.
MaxBuilderFields == 2
MaxSaves == 1

\* The most auth-state notifications and role fetches outstanding at once.
MaxAuthPending == 2

\* The width of one import batch.  The source sets 400 (DataEntry.tsx:189);
\* the model runs the same loop with a small width, and every statement about
\* the width is made relative to batchSize.
batchSize == 2

\* const batchSize = 400
sourceBatchSize == 400

\* ------------------------------------------------------------ JS values

Val(t, n, s) == [t |-> t, n |-> n, s |-> s]

Undefined == Val("undefined", 0, <<>>)

Null == Val("null", 0, <<>>)

Num(n) == Val("number", n, <<>>)

Str(s) == Val("string", 0, s)

\* A Date object; n is its local time in minutes since 2024-01-01T00:00.
DateObj(n) == Val("date", n, <<>>)

\* In a shallow copy of a row, a cell that holds the same Date object as the
\* row it was copied from (the object lives in the row, see processedRow).
SameDate == Val("sameDate", 0, <<>>)

DigitChars == <<"0", "1", "2", "3", "4", "5", "6", "7", "8", "9">>

RECURSIVE NatStr(_)
\* String(n) for a natural number n.
NatStr(n) ==
    IF n < 10 THEN <<DigitChars[n + 1]>>
    ELSE NatStr(n \div 10) \o <<DigitChars[(n % 10) + 1]>>

RECURSIVE padStart(_, _, _)
padStart(s, len, ch) ==
    IF Len(s) >= len THEN s ELSE padStart(<<ch>> \o s, len, ch)

\* ----------------------------------------------------------------- Date

IsLeap(y) == (y % 4 = 0 /\ y % 100 # 0) \/ y % 400 = 0

DaysInMonth(y, m) ==
    IF m = 2 THEN (IF IsLeap(y) THEN 29 ELSE 28)
    ELSE IF m \in {4, 6, 9, 11} THEN 30 ELSE 31

RECURSIVE Civil(_, _, _)
\* The calendar date d days after the first of month m of year y.
Civil(y, m, d) ==
    IF d < DaysInMonth(y, m)
    THEN [year |-> y, month |-> m, day |-> d + 1]
    ELSE Civil(IF m = 12 THEN y + 1 ELSE y, IF m = 12 THEN 1 ELSE m + 1,
               d - DaysInMonth(y, m))

getHours(d) == (d.n \div 60) % 24

getMinutes(d) == d.n % 60

getFullYear(d) == Civil(2024, 1, d.n \div 1440).year

\* JS months count from 0.
getMonth(d) == Civil(2024, 1, d.n \div 1440).month - 1

getDate(d) == Civil(2024, 1, d.n \div 1440).day

\* d.setHours(h): the same local day and minutes with the hour set to h; an
\* hour of 24 or more rolls into the following days.
setHours(d, h) == DateObj((d.n \div 1440) * 1440 + h * 60 + getMinutes(d))

\* `${year}-${month}-${day}` with month and day padded to two digits.
FormatDate(d) ==
    Str(NatStr(getFullYear(d)) \o <<"-">>
        \o padStart(NatStr(getMonth(d) + 1), 2, "0") \o <<"-">>
        \o padStart(NatStr(getDate(d)), 2, "0"))

\* `${hours}:${minutes}`, each padded to two digits.
FormatTime(d) ==
    Str(padStart(NatStr(getHours(d)), 2, "0") \o <<":">>
        \o padStart(NatStr(getMinutes(d)), 2, "0"))

\* --------------------------------------------------------------- schema

FieldTypes == {"text", "number", "date", "time", "decimal", "dropdown"}

FormField(name, type, required) ==
    [name |-> name, type |-> type, required |-> required]

FormSchema(id, name, fs) == [id |-> id, name |-> name, fields |-> fs]

\* The columns a sheet or an entered row may carry.
Cols == {"Name", "Qty", "Day", "At"}

FormA ==
    FormSchema("fA", "Orders",
               << FormField("Name", "text", TRUE),
                  FormField("Qty", "number", TRUE),
                  FormField("Day", "date", TRUE),
                  FormField("At", "time", FALSE) >>)

FormB ==
    FormSchema("fB", "Visits",
               << FormField("At", "time", TRUE),
                  FormField("Name", "dropdown", FALSE),
                  FormField("Day", "text", FALSE) >>)

Forms == {FormA, FormB}

\* A cell of a sheet: day index (0 = 2024-01-01), hour, minute.
Cell(day, h, m) == DateObj(day * 1440 + h * 60 + m)

Row(name, qty, day, at) ==
    [c \in Cols |-> CASE c = "Name" -> name
                      [] c = "Qty" -> qty
                      [] c = "Day" -> day
                      [] c = "At" -> at]

\* The rows a parsed sheet is made of (XLSX.utils.sheet_to_json with
\* cellDates: an empty cell is an absent key, a date cell a Date object).
RowSet ==
    { Row(Str(<<"A">>), Num(0), Cell(64, 0, 0), Cell(64, 9, 30)),
      Row(Str(<<>>), Num(0), Cell(59, 0, 0), Undefined),
      Row(Cell(59, 15, 5), Num(5), Cell(59, 15, 5), Cell(59, 15, 5)),
      Row(Str(<<"B">>), Undefined, Str(<<"2", "0", "2", "4">>), Cell(10, 23, 45)),
      Row(Null, Num(7), Cell(365, 13, 0), Cell(365, 0, 0)) }

RECURSIVE SeqsUpTo(_, _)
\* The sequences over S of length at most n.
SeqsUpTo(S, n) ==
    IF n = 0 THEN {<<>>}
    ELSE LET shorter == SeqsUpTo(S, n - 1)
         IN shorter \cup {Append(q, x) : q \in {t \in shorter : Len(t) = n - 1}, x \in S}

Sheets == SeqsUpTo(RowSet, MaxRows)

\* ---------------------------------------------------------------- state

VARIABLES
    selectedForm,   \* the form chosen on the page
    pc,             \* "idle", "running" (between batches) or "done"
    data,           \* the parsed rows; their Date objects are mutable
    parsed,         \* the rows as the parser returned them (never changed)
    i,              \* the loop variable of the batch loop
    promises,       \* per row: "none", "pending" or "fulfilled"
    calls,          \* the addDoc calls made, in order: [row, doc]
    outcome,        \* per call: "pending", "ok" or "failed"
    successCount,
    errorCount,
    okBy,           \* per row: how often it incremented successCount
    errBy,          \* per row: how often it incremented errorCount
    loading,
    toast,          \* the last message shown
    formData,       \* the entered row
    editingId,      \* the submission being edited, or NoId
    submissions,    \* the local list of submissions
    submitting,
    pending,        \* the handleSubmit calls awaiting the store
    attempt,        \* the last handleSubmit call: its row, and whether it wrote
    typed,          \* the input changes so far
    config,         \* the chart configuration of the analysis page
    fetches,        \* the forms whose submissions fetch is in flight (a set:
                    \* two fetches of one form are not told apart)
    yDomain,        \* the viewport << yMin, yMax >> of the chart
    isDragging,
    lastY,          \* lastY.current
    gestures,       \* the wheel and pointer-move events since the last reset
    zoomCleared,    \* the last change of the viewport was a reset that
                    \* discarded a zoom
    probe,          \* a raw yAxis value and the number a transform made of it
    template,       \* the header row of the last template written, or NoTemplate
    formName,       \* form builder: the name typed
    fields,         \* form builder: the fields, each [id, name]
    editingFormId,  \* form builder: the form being edited, or NoId
    builderLoading, \* form builder: its loading flag
    saving,         \* form builder: the payload of the save awaiting the store
    existingForms,  \* form builder: the forms listed
    formWrites,     \* the payloads the store accepted from handleSaveForm
    alertMsg,       \* form builder: the last alert
    currentUser,    \* AuthProvider: the user, or NoUser
    userRole,       \* AuthProvider: "admin", "editor", "viewer" or "null"
    authLoading,    \* AuthProvider: its loading flag
    mockUserItem,   \* localStorage item mockUser: a user, or NoUser
    storedUser,     \* the item as the mount effect read it
    authUser,       \* the user the auth service holds, or NoUser
    authEvents,     \* auth-state notifications not yet delivered
    roleFetches,    \* auth-state callbacks awaiting the role document
    signingOut,     \* a logout() awaits signOut
    loggedOut,      \* the last login or logout to complete was a logout
    route           \* the path shown by the router

importVars ==
    << selectedForm, pc, data, parsed, i, promises, calls, outcome,
       successCount, errorCount, okBy, errBy, loading, toast >>

entryVars ==
    << formData, editingId, submissions, submitting, pending, attempt, typed >>

chartVars == << config, fetches >>

viewVars == << yDomain, isDragging, lastY, gestures, zoomCleared >>

\* The state of the form builder.
builderVars ==
    << formName, fields, editingFormId, builderLoading, saving, existingForms,
       formWrites, alertMsg >>

\* The state of AuthProvider, of the auth service and of the router.
authVars ==
    << currentUser, userRole, authLoading, mockUserItem, storedUser, authUser,
       authEvents, roleFetches, signingOut, loggedOut, route >>

\* The state of the template download and of the other pages.
pageVars == << template, builderVars, authVars >>

vars == << importVars, entryVars, chartVars, viewVars, probe, pageVars >>

\* What the handlers of the bulk import leave alone.
notImport == << entryVars, chartVars, viewVars, probe, pageVars >>

\* What the handlers of the manual entry leave alone.
notEntry ==
    << pc, data, parsed, i, promises, calls, outcome, successCount,
       errorCount, okBy, errBy, loading, chartVars, viewVars, probe, pageVars >>

\* --------------------------------------------------- row normalisation

\* const processedRow = { ...row }: a shallow copy; a Date cell of the copy
\* is the very object of the row.
processedRow(row) ==
    [c \in Cols |-> IF row[c].t = "date" THEN SameDate ELSE row[c]]

\* The loop body of selectedForm.fields.forEach for one field: p is the
\* processed row, o the row (whose Date objects the body mutates).
FormatField(field, p, o) ==
    IF p[field.name] = SameDate
    THEN LET shifted == setHours(o[field.name], getHours(o[field.name]) + 12)
             o1 == [o EXCEPT ![field.name] = shifted]
             dateVal == o1[field.name]
             originalDate == o1[field.name]
         IN  IF field.type = "date"
             THEN [p |-> [p EXCEPT ![field.name] = FormatDate(dateVal)], o |-> o1]
             ELSE IF field.type = "time"
             THEN [p |-> [p EXCEPT ![field.name] = FormatTime(originalDate)], o |-> o1]
             ELSE [p |-> p, o |-> o1]
    ELSE [p |-> p, o |-> o]

RECURSIVE FormatFields(_, _, _, _)
\* selectedForm.fields.forEach(...), from field k on.
FormatFields(fs, k, p, o) ==
    IF k > Len(fs) THEN [p |-> p, o |-> o]
    ELSE LET step == FormatField(fs[k], p, o)
         IN  FormatFields(fs, k + 1, step.p, step.o)

\* IsMissing without the test for the empty string.
IsMissingNoEmpty(v) == v = Undefined \/ v = Null

\* The test of the bulk path on one processed cell.
IsMissing(v) == v = Undefined \/ v = Null \/ v = Str(<<>>)

missingRequired(form, p) ==
    \E k \in 1..Len(form.fields) :
        form.fields[k].required /\ IsMissing(p[form.fields[k].name])

\* What addDoc receives: the processed row with its Date cells read at the
\* time of the call.
newSubmission(form, p, o) ==
    [formId |-> form.id, formName |-> form.name,
     data |-> [c \in Cols |-> IF p[c] = SameDate THEN o[c] ELSE p[c]]]

\* ------------------------------------------------------- bulk import

\* sliceEnd that leaves out the last row of a full chunk.
sliceEndShort(lo, width, n) == IF lo + width < n THEN lo + width - 1 ELSE n

\* The end of data.slice(lo, lo + width) for an array of n elements.
sliceEnd(lo, width, n) == IF lo + width < n THEN lo + width ELSE n

\* The rows of the chunk data.slice(i, i + batchSize), as 1-based indices.
chunk(lo, n) == (lo + 1)..sliceEnd(lo, batchSize, n)

RECURSIVE BatchSizes(_, _, _)
\* for (let i = lo; i < n; i += width): the lengths of the chunks
\* data.slice(i, i + width), in the order of the loop.
BatchSizes(lo, n, width) ==
    IF lo >= n THEN <<>>
    ELSE << sliceEnd(lo, width, n) - lo >> \o BatchSizes(lo + width, n, width)

\* The async callback of chunk.map for row r, up to its first await: st
\* holds the variables the callback reads and writes.
RowTask(form, st, r) ==
    LET fmt == FormatFields(form.fields, 1, processedRow(st.data[r]), st.data[r])
    IN  IF missingRequired(form, fmt.p)
        THEN [st EXCEPT !.data[r] = fmt.o,
                        !.errorCount = @ + 1,
                        !.errBy[r] = @ + 1,
                        !.promises[r] = "fulfilled"]
        ELSE [st EXCEPT !.data[r] = fmt.o,
                        !.calls = Append(@, [row |-> r,
                                             doc |-> newSubmission(form, fmt.p, fmt.o)]),
                        !.outcome = Append(@, "pending"),
                        !.promises[r] = "pending"]

RECURSIVE RunRows(_, _, _, _)
\* chunk.map(async row => ...): the callbacks of rows r..hi run one after the
\* other, each to its first await.
RunRows(form, st, r, hi) ==
    IF r > hi THEN st ELSE RunRows(form, RowTask(form, st, r), r + 1, hi)

\* One pass of the loop body before its await, for the chunk starting at lo.
StartBatch(form, st, lo) ==
    RunRows(form, st, lo + 1, sliceEnd(lo, batchSize, Len(st.data)))

\* Promise.all taken for Promise.race: resumes at the first fulfilled promise.
PromiseRaceResolved(prs, rows) == \E r \in rows : prs[r] = "fulfilled"

\* await Promise.all(promises) resumes once every promise of the chunk is
\* fulfilled (no row callback rejects: its only await is inside try/catch).
PromiseAllResolved(prs, rows) == \A r \in rows : prs[r] = "fulfilled"

\* AfterAddDoc with a catch clause that does not count the failure.
AfterAddDocUncounted(counts, ok) ==
    IF ok THEN [counts EXCEPT !.successCount = @ + 1] ELSE counts

\* The continuation of await addDoc(...) in the row callback.
AfterAddDoc(counts, ok) ==
    IF ok THEN [counts EXCEPT !.successCount = @ + 1]
    ELSE [counts EXCEPT !.errorCount = @ + 1]

ImportState ==
    [data |-> data, promises |-> promises, calls |-> calls, outcome |-> outcome,
     errorCount |-> errorCount, errBy |-> errBy]

\* IsEmptySheet that lets every sheet through.
IsEmptySheetNever(sheet) == FALSE

\* data.length === 0
IsEmptySheet(sheet) == Len(sheet) = 0

\* reader.onload: parse, reject an empty sheet, else start the first batch.
handleFileUpload(sheet) ==
    /\ pc = "idle"
    /\ parsed' = sheet
    /\ IF IsEmptySheet(sheet)
       THEN /\ toast' = [kind |-> "empty", success |-> 0, errors |-> 0]
            /\ loading' = FALSE
            /\ pc' = "done"
            /\ data' = sheet
            /\ UNCHANGED << i, promises, calls, outcome, successCount,
                            errorCount, okBy, errBy >>
       ELSE LET st0 == [data |-> sheet,
                        promises |-> [r \in 1..Len(sheet) |-> "none"],
                        calls |-> <<>>, outcome |-> <<>>, errorCount |-> 0,
                        errBy |-> [r \in 1..Len(sheet) |-> 0]]
                st == StartBatch(selectedForm, st0, 0)
            IN  /\ loading' = TRUE
                /\ successCount' = 0
                /\ okBy' = [r \in 1..Len(sheet) |-> 0]
                /\ i' = 0
                /\ data' = st.data
                /\ promises' = st.promises
                /\ calls' = st.calls
                /\ outcome' = st.outcome
                /\ errorCount' = st.errorCount
                /\ errBy' = st.errBy
                /\ pc' = "running"
                /\ UNCHANGED toast
    /\ UNCHANGED << selectedForm, notImport >>

\* The store answers call k; the row callback resumes after its await.
RowSettle(k, ok) ==
    /\ pc = "running"
    /\ k \in 1..Len(calls)
    /\ outcome[k] = "pending"
    /\ outcome' = [outcome EXCEPT ![k] = IF ok THEN "ok" ELSE "failed"]
    /\ LET c == AfterAddDoc([successCount |-> successCount,
                             errorCount |-> errorCount], ok)
       IN  /\ successCount' = c.successCount
           /\ errorCount' = c.errorCount
           /\ okBy' = [okBy EXCEPT ![calls[k].row] = @ + (c.successCount - successCount)]
           /\ errBy' = [errBy EXCEPT ![calls[k].row] = @ + (c.errorCount - errorCount)]
    /\ promises' = [promises EXCEPT ![calls[k].row] = "fulfilled"]
    /\ UNCHANGED << selectedForm, pc, data, parsed, i, calls, loading, toast,
                    notImport >>

\* The loop resumes after await Promise.all(promises): the next batch, or
\* the report and the end of the handler.
BatchDone ==
    /\ pc = "running"
    /\ PromiseAllResolved(promises, chunk(i, Len(data)))
    /\ i' = i + batchSize
    /\ IF i + batchSize < Len(data)
       THEN LET st == StartBatch(selectedForm, ImportState, i + batchSize)
            IN  /\ data' = st.data
                /\ promises' = st.promises
                /\ calls' = st.calls
                /\ outcome' = st.outcome
                /\ errorCount' = st.errorCount
                /\ errBy' = st.errBy
                /\ UNCHANGED << pc, loading, toast >>
       ELSE /\ toast' = [kind |-> "complete", success |-> successCount,
                         errors |-> errorCount]
            /\ loading' = FALSE
            /\ pc' = "done"
            /\ UNCHANGED << data, promises, calls, outcome, errorCount, errBy >>
    /\ UNCHANGED << selectedForm, parsed, successCount, okBy, notImport >>

\* ------------------------------------------------- viewport values

\* An end of the viewport: 'auto', or the number p / q (q > 0, in lowest
\* terms), the exact value of what the code computes in floating point.
Auto == [auto |-> TRUE, p |-> 0, q |-> 1]

Abs(n) == IF n < 0 THEN 0 - n ELSE n

RECURSIVE Gcd(_, _)
Gcd(a, b) == IF b = 0 THEN a ELSE Gcd(b, a % b)

Rat(p, q) ==
    [auto |-> FALSE, p |-> p \div Gcd(Abs(p), q), q |-> q \div Gcd(Abs(p), q)]

\* a + b and a - b over the least common denominator.
RatAdd(a, b) ==
    LET g == Gcd(a.q, b.q)
    IN  Rat(a.p * (b.q \div g) + b.p * (a.q \div g), (a.q \div g) * b.q)

RatSub(a, b) ==
    LET g == Gcd(a.q, b.q)
    IN  Rat(a.p * (b.q \div g) - b.p * (a.q \div g), (a.q \div g) * b.q)

RatMul(a, b) == Rat(a.p * b.p, a.q * b.q)

RatLess(a, b) == a.p * b.q < b.p * a.q

\* Math.min(a, b)
MathMin(a, b) == IF RatLess(b, a) THEN b ELSE a

\* [0, 'auto']
ResetDomain == << Rat(0, 1), Auto >>

\* No raw value has been coerced.
NoProbe ==
    [raw |-> Undefined, transform |-> "none", value |-> [kind |-> "finite", n |-> 0]]

\* No workbook has been written.
NoTemplate == [written |-> FALSE, headers |-> <<>>, file |-> ""]

\* The form builder as mounted.
BuilderIdle ==
    /\ formName = <<>>
    /\ fields = <<>>
    /\ editingFormId = <<>>
    /\ builderLoading = FALSE
    /\ saving = <<>>
    /\ existingForms = <<>>
    /\ formWrites = <<>>
    /\ alertMsg = "none"

\* currentUser === null
NoUser == [uid |-> "", email |-> <<>>]

\* A session is established and the page shown is the dashboard.
AuthIdle ==
    /\ currentUser = [uid |-> "u1", email |-> <<>>]
    /\ userRole = "editor"
    /\ authLoading = FALSE
    /\ mockUserItem = NoUser
    /\ storedUser = NoUser
    /\ authUser = [uid |-> "u1", email |-> <<>>]
    /\ authEvents = <<>>
    /\ roleFetches = <<>>
    /\ signingOut = FALSE
    /\ loggedOut = FALSE
    /\ route = "/"

\* No template has been downloaded and the other pages are as mounted.
PagesIdle ==
    /\ template = NoTemplate
    /\ BuilderIdle
    /\ AuthIdle

\* Nothing has been coerced, and the pages are idle.
ProbeIdle ==
    /\ probe = NoProbe
    /\ PagesIdle

\* No import has run.
ImportIdle ==
    /\ pc = "idle"
    /\ data = <<>>
    /\ parsed = <<>>
    /\ i = 0
    /\ promises = <<>>
    /\ calls = <<>>
    /\ outcome = <<>>
    /\ successCount = 0
    /\ errorCount = 0
    /\ okBy = <<>>
    /\ errBy = <<>>
    /\ loading = FALSE
    /\ toast = [kind |-> "none", success |-> 0, errors |-> 0]

\* editingId === null.
NoId == <<>>

EmptyRow == [c \in Cols |-> Undefined]

\* The entry form is empty and nothing is being saved.
EntryIdle ==
    /\ formData = EmptyRow
    /\ editingId = NoId
    /\ submissions = <<>>
    /\ submitting = FALSE
    /\ pending = <<>>
    /\ attempt = [n |-> 0, row |-> EmptyRow, wrote |-> FALSE]
    /\ typed = 0

\* The analysis page as mounted (useState of config).
ChartIdle ==
    /\ config = [type |-> "column", xAxis |-> "", yAxis |-> "", target |-> Undefined]
    /\ fetches = {}
    /\ yDomain = ResetDomain
    /\ isDragging = FALSE
    /\ lastY = 0
    /\ gestures = <<>>
    /\ zoomCleared = FALSE

\* A form is selected and a sheet is about to be uploaded.
InitImport ==
    /\ selectedForm \in Forms
    /\ ImportIdle
    /\ EntryIdle
    /\ ChartIdle
    /\ ProbeIdle

NextImport ==
    \/ pc = "idle" /\ \E sheet \in Sheets : handleFileUpload(sheet)
    \/ \E k \in 1..Len(calls), ok \in BOOLEAN : RowSettle(k, ok)
    \/ BatchDone

SpecImport == InitImport /\ [][NextImport]_vars

\* ------------------------------------------------ bulk import: claims

BatchOf(r) == (r - 1) \div batchSize

InFlight == {k \in 1..Len(calls) : outcome[k] = "pending"}

CallsOf(r) == {k \in 1..Len(calls) : calls[k].row = r}

\* The claim's own reading of a missing value: absent, null or ''.
AbsentNullOrEmpty(v) ==
    v.t = "undefined" \/ v.t = "null" \/ (v.t = "string" /\ Len(v.s) = 0)

\* Row r of the parsed sheet lacks a required field of the form.  Date/time
\* normalisation maps a Date to a Date or a non-empty string and leaves every
\* other value alone, so the test reads the same before and after it.
RequiredAbsent(r) ==
    \E k \in 1..Len(selectedForm.fields) :
        /\ selectedForm.fields[k].required
        /\ AbsentNullOrEmpty(parsed[r][selectedForm.fields[k].name])

\* C1: no row of a later batch has been validated or submitted while a row
\* task of an earlier batch is unsettled, and at most one batch width of
\* store writes is in flight.
C1_BatchesSequential ==
    /\ \A r1 \in DOMAIN promises : \A r2 \in DOMAIN promises :
          (BatchOf(r1) < BatchOf(r2) /\ (promises[r2] # "none" \/ CallsOf(r2) # {}))
              => promises[r1] = "fulfilled"
    /\ Cardinality(InFlight) <= batchSize

C1_Witness ==
    /\ Cardinality(InFlight) = batchSize
    /\ \E r \in DOMAIN promises : BatchOf(r) >= 1 /\ promises[r] = "pending"

\* C2: when an import of N >= 1 rows completes, every row was processed
\* exactly once, the reported counts add up to N, and successCount is the
\* number of store creates that succeeded.
C2_CountsAtCompletion ==
    (pc = "done" /\ Len(parsed) >= 1) =>
        /\ toast.kind = "complete"
        /\ toast.success + toast.errors = Len(parsed)
        /\ toast.success = Cardinality({k \in 1..Len(calls) : outcome[k] = "ok"})
        /\ \A r \in 1..Len(parsed) :
              /\ promises[r] = "fulfilled"
              /\ okBy[r] + errBy[r] = 1
              /\ Cardinality(CallsOf(r)) <= 1

C2_Witness ==
    /\ pc = "done"
    /\ Len(parsed) > batchSize
    /\ \E k \in 1..Len(calls) : outcome[k] = "ok"
    /\ \E k \in 1..Len(calls) : outcome[k] = "failed" /\ calls[k].row <= batchSize
    /\ \E r \in 1..Len(parsed) : CallsOf(r) = {} /\ r <= batchSize

\* C3: a row lacking a required field (absent, null or '') adds exactly one
\* to errorCount, nothing to successCount, and causes no store create.
C3_MissingRequiredCounted ==
    \A r \in DOMAIN promises :
        (promises[r] # "none" /\ RequiredAbsent(r)) =>
            errBy[r] = 1 /\ okBy[r] = 0 /\ CallsOf(r) = {}

C3_Witness ==
    /\ pc = "done"
    /\ successCount >= 1
    /\ \E r \in DOMAIN promises :
          /\ RequiredAbsent(r)
          /\ errBy[r] = 1
          /\ \E c \in Cols : parsed[r][c] = Str(<<>>)

\* C4: a time field whose cell is a Date object is stored as the HH:MM of
\* the value as parsed, untouched by the 12-hour shift.
C4_TimeFromOriginal ==
    \A k \in 1..Len(calls) : \A f \in 1..Len(selectedForm.fields) :
        LET field == selectedForm.fields[f]
            raw == parsed[calls[k].row][field.name]
        IN  (field.type = "time" /\ raw.t = "date")
                => calls[k].doc.data[field.name] = FormatTime(raw)

\* C5: a field that is not of type date or time, and any value that is not a
\* Date object, is stored as the parser returned it.
C5_OthersUnchanged ==
    \A k \in 1..Len(calls) :
        LET raw == parsed[calls[k].row]
            stored == calls[k].doc.data
        IN  /\ \A f \in 1..Len(selectedForm.fields) :
                  selectedForm.fields[f].type \notin {"date", "time"}
                      => stored[selectedForm.fields[f].name]
                             = raw[selectedForm.fields[f].name]
            /\ \A c \in Cols : raw[c].t # "date" => stored[c] = raw[c]

\* ------------------------------------------------------- manual entry

\* !v of JavaScript: undefined, null, '' and the number 0 are falsy.
Falsy(v) ==
    \/ v.t = "undefined"
    \/ v.t = "null"
    \/ (v.t = "string" /\ v.s = <<>>)
    \/ (v.t = "number" /\ v.n = 0)

\* The required-field test of handleSubmit.
missingRequiredEntry(form, row) ==
    \E k \in 1..Len(form.fields) :
        form.fields[k].required /\ Falsy(row[form.fields[k].name])

\* The documents a bulk import of the form writes: what fetchSubmissions can
\* return for it.
ImportedData(form) ==
    { LET fmt == FormatFields(form.fields, 1, processedRow(row), row)
      IN  newSubmission(form, fmt.p, fmt.o).data :
        row \in {r \in RowSet :
                    ~missingRequired(form, FormatFields(form.fields, 1,
                                                        processedRow(r), r).p)} }

RECURSIVE StoredId(_)
\* The id of the k-th document of a fetched list.
StoredId(k) == IF k = 0 THEN <<"s">> ELSE <<"+">> \o StoredId(k - 1)

RECURSIVE NewId(_)
\* docRef.id of the document created by the n-th handleSubmit call.
NewId(n) == IF n = 0 THEN <<"n">> ELSE <<"+">> \o NewId(n - 1)

Submission(id, form, rowData, by, at) ==
    [id |-> id, formId |-> form.id, formName |-> form.name, data |-> rowData,
     submittedBy |-> by, submittedAt |-> at]

\* The lists fetchSubmissions may have loaded for the form.
FetchedLists(form) ==
    { [k \in 1..Len(q) |-> Submission(StoredId(k), form, q[k], "u0", "server")] :
        q \in SeqsUpTo(ImportedData(form), MaxSubs) }

\* The input changes tried: the field, and e.target.value (a string).
Inputs ==
    { <<"Qty", Str(<<"0">>)>>, <<"Qty", Str(<<>>)>>, <<"At", Str(<<"0">>)>> }

FieldNames(form) == {form.fields[k].name : k \in 1..Len(form.fields)}

handleInputChange(fieldName, value) ==
    /\ typed < MaxInputs
    /\ typed' = typed + 1
    /\ fieldName \in FieldNames(selectedForm)
    /\ formData' = [formData EXCEPT ![fieldName] = value]
    /\ UNCHANGED << selectedForm, toast, editingId, submissions, submitting,
                    pending, attempt, notEntry >>

handleEdit(submission) ==
    /\ formData' = submission.data
    /\ editingId' = submission.id
    /\ UNCHANGED << selectedForm, toast, submissions, submitting, pending,
                    attempt, typed, notEntry >>

cancelEdit ==
    /\ editingId # NoId
    /\ editingId' = NoId
    /\ formData' = EmptyRow
    /\ UNCHANGED << selectedForm, toast, submissions, submitting, pending,
                    attempt, typed, notEntry >>

\* handleSubmit up to its await: the validation, then the store call with
\* the formData and editingId of this render.  It is called by the save
\* button, which is disabled while submitting, and by handleKeyDown for the
\* Enter key on the last field, which is not.
handleSubmit(via) ==
    /\ via = "button" => ~submitting
    /\ attempt.n < MaxSubmits
    /\ IF missingRequiredEntry(selectedForm, formData)
       THEN /\ toast' = [kind |-> "required", success |-> 0, errors |-> 0]
            /\ attempt' = [n |-> attempt.n + 1, row |-> formData, wrote |-> FALSE]
            /\ UNCHANGED << submitting, pending >>
       ELSE /\ submitting' = TRUE
            /\ pending' = Append(pending, [n |-> attempt.n + 1,
                                           data |-> formData,
                                           editingId |-> editingId,
                                           form |-> selectedForm])
            /\ attempt' = [n |-> attempt.n + 1, row |-> formData, wrote |-> TRUE]
            /\ UNCHANGED toast
    /\ UNCHANGED << selectedForm, formData, editingId, submissions, typed,
                    notEntry >>

RemoveAt(q, k) == [j \in 1..(Len(q) - 1) |-> IF j < k THEN q[j] ELSE q[j + 1]]

\* UpdatedList without the test of the id.
UpdatedListAll(prev, id, row) ==
    [j \in 1..Len(prev) |-> [prev[j] EXCEPT !.data = row]]

\* prev.map(sub => sub.id === editingId ? { ...sub, data: formData } : sub)
UpdatedList(prev, id, row) ==
    [j \in 1..Len(prev) |->
        IF prev[j].id = id THEN [prev[j] EXCEPT !.data = row] ELSE prev[j]]

\* RowAfterSubmit with setFormData({}) moved to the finally block.
RowAfterSubmitCleared(ok, row) == EmptyRow

\* setFormData({}) at the end of the try block: skipped when the await throws.
RowAfterSubmit(ok, row) == IF ok THEN EmptyRow ELSE row

\* The store answers the k-th waiting handleSubmit; the handler runs to its
\* end (try, catch, finally).
SubmitSettle(k, ok) ==
    /\ k \in 1..Len(pending)
    /\ LET call == pending[k]
       IN  IF ok
           THEN /\ IF call.editingId # NoId
                   THEN /\ submissions' =
                              UpdatedList(submissions, call.editingId, call.data)
                        /\ toast' = [kind |-> "updated", success |-> 0, errors |-> 0]
                        /\ editingId' = NoId
                   ELSE /\ submissions' =
                              << Submission(NewId(call.n), call.form,
                                            call.data, "u1", "mock") >>
                              \o submissions
                        /\ toast' = [kind |-> "added", success |-> 0, errors |-> 0]
                        /\ UNCHANGED editingId
           ELSE /\ toast' = [kind |-> "failed", success |-> 0, errors |-> 0]
                /\ UNCHANGED << editingId, submissions >>
    /\ formData' = RowAfterSubmit(ok, formData)
    /\ submitting' = FALSE
    /\ pending' = RemoveAt(pending, k)
    /\ UNCHANGED << selectedForm, attempt, typed, notEntry >>

\* A form is selected and its submissions are loaded.
InitEntry ==
    /\ selectedForm \in Forms
    /\ ImportIdle
    /\ formData = EmptyRow
    /\ editingId = NoId
    /\ submissions \in FetchedLists(selectedForm)
    /\ submitting = FALSE
    /\ pending = <<>>
    /\ attempt = [n |-> 0, row |-> EmptyRow, wrote |-> FALSE]
    /\ typed = 0
    /\ ChartIdle
    /\ ProbeIdle

NextEntry ==
    \/ \E in \in Inputs : handleInputChange(in[1], in[2])
    \/ \E j \in 1..Len(submissions) : handleEdit(submissions[j])
    \/ cancelEdit
    \/ \E via \in {"button", "enter"} : handleSubmit(via)
    \/ \E k \in 1..Len(pending), ok \in BOOLEAN : SubmitSettle(k, ok)

SpecEntry == InitEntry /\ [][NextEntry]_vars

\* C6: handleSubmit rejects the entered row, writing nothing, exactly when a
\* required field of the form is absent, null or '' in it.
C6_RejectedIffMissing ==
    attempt.n > 0 =>
        (attempt.wrote <=>
            ~ \E k \in 1..Len(selectedForm.fields) :
                  /\ selectedForm.fields[k].required
                  /\ AbsentNullOrEmpty(attempt.row[selectedForm.fields[k].name]))

\* --------------------------------------------------- numeric coercion

\* A JavaScript number: an integer, NaN, Infinity or -Infinity.
NaN == [kind |-> "NaN", n |-> 0]

Finite(n) == [kind |-> "finite", n |-> n]

Infinite(sign) == [kind |-> IF sign > 0 THEN "Infinity" ELSE "-Infinity", n |-> 0]

IsDigit(c) == \E d \in 1..10 : DigitChars[d] = c

DigitOf(c) == (CHOOSE d \in 1..10 : DigitChars[d] = c) - 1

AllDigits(s) == Len(s) > 0 /\ \A k \in 1..Len(s) : IsDigit(s[k])

RECURSIVE DigitsVal(_)
DigitsVal(s) ==
    IF Len(s) = 0 THEN 0
    ELSE 10 * DigitsVal(SubSeq(s, 1, Len(s) - 1)) + DigitOf(s[Len(s)])

\* The characters of the string Infinity.
InfinityChars == <<"I", "n", "f", "i", "n", "i", "t", "y">>

\* Number(s) for a non-empty string s without a sign.
UnsignedOf(s) ==
    IF AllDigits(s) THEN Finite(DigitsVal(s))
    ELSE IF s = InfinityChars THEN Infinite(1)
    ELSE NaN

\* -x for a JavaScript number x.
Negated(x) ==
    CASE x.kind = "finite" -> Finite(0 - x.n)
      [] x.kind = "Infinity" -> Infinite(0 - 1)
      [] x.kind = "-Infinity" -> Infinite(1)
      [] OTHER -> NaN

\* Number(v) on the values of the model: a string is a number when it is
\* empty (0) or an optionally signed run of digits or Infinity.
NumberOf(v) ==
    CASE v.t = "number" -> Finite(v.n)
      [] v.t = "null" -> Finite(0)
      [] v.t = "date" -> Finite(v.n * 60000)   \* ms from the origin of DateObj
      [] v.t = "string" ->
            IF v.s = <<>> THEN Finite(0)
            ELSE IF v.s[1] = "-" THEN Negated(UnsignedOf(Tail(v.s)))
            ELSE IF v.s[1] = "+" THEN UnsignedOf(Tail(v.s))
            ELSE UnsignedOf(v.s)
      [] OTHER -> NaN

\* Number(v) || 0 as a JavaScript number: NaN and 0 are falsy, every other
\* number, Infinity and -Infinity included, is kept.
CoerceNumber(v) ==
    IF NumberOf(v).kind = "NaN" \/ (NumberOf(v).kind = "finite" /\ NumberOf(v).n = 0)
    THEN Finite(0)
    ELSE NumberOf(v)

\* Number(v) || 0 as an integer, for the values of the chart datasets (all
\* of them coerce to a finite number).
Coerce(v) == CASE CoerceNumber(v).kind = "finite" -> CoerceNumber(v).n

\* String(n) for an integer n.
IntStr(n) == IF n < 0 THEN <<"-">> \o NatStr(0 - n) ELSE NatStr(n)

\* String(v) on the values of the model.
StringOf(v) ==
    CASE v.t = "number" -> IntStr(v.n)
      [] v.t = "string" -> v.s
      [] v.t = "null" -> <<"n", "u", "l", "l">>
      [] OTHER -> <<"u", "n", "d", "e", "f", "i", "n", "e", "d">>

\* sub.data[key]: a key the object lacks reads as undefined.
Get(d, key) == IF key \in DOMAIN d THEN d[key] ELSE Undefined

\* ------------------------------------------------- aggregation engine

RECURSIVE InsertAsc(_, _)
InsertAsc(q, x) ==
    IF Len(q) = 0 THEN <<x>>
    ELSE IF x < Head(q) THEN <<x>> \o q
    ELSE <<Head(q)>> \o InsertAsc(Tail(q), x)

RECURSIVE SortAsc(_)
\* values.sort((a, b) => a - b)
SortAsc(q) ==
    IF Len(q) = 0 THEN <<>>
    ELSE InsertAsc(SortAsc(SubSeq(q, 1, Len(q) - 1)), q[Len(q)])

binCount == 10

\* The lengths start and end of a bin are kept multiplied by binCount, so
\* that (max - min) / binCount stays an integer.  binSize is
\* (max - min) / binCount || 1.
binSizeScaled(min, max) == IF max - min = 0 THEN binCount ELSE max - min

\* x.toFixed(1) for x = scaled / 10.
toFixed1(scaled) ==
    LET a == IF scaled < 0 THEN 0 - scaled ELSE scaled
    IN  (IF scaled < 0 THEN <<"-">> ELSE <<>>)
            \o NatStr(a \div 10) \o <<".">> \o <<DigitChars[(a % 10) + 1]>>

\* The bins before counting: Array.from({ length: binCount }, ...).
EmptyBins(min, max, target) ==
    [b \in 1..binCount |->
        LET start == binCount * min + (b - 1) * binSizeScaled(min, max)
            end == start + binSizeScaled(min, max)
        IN  [range |-> toFixed1(start) \o <<" ", "-", " ">> \o toFixed1(end),
             count |-> 0, start |-> start, end |-> end, target |-> target]]

\* findBin that falls back to the first bin.
findBinFirst(bins, v) ==
    IF \E b \in 1..Len(bins) : binCount * v >= bins[b].start /\ binCount * v < bins[b].end
    THEN CHOOSE b \in 1..Len(bins) :
            /\ binCount * v >= bins[b].start /\ binCount * v < bins[b].end
            /\ \A c \in 1..(b - 1) :
                  ~(binCount * v >= bins[c].start /\ binCount * v < bins[c].end)
    ELSE 1

\* findBin without the fallback: a value no bin holds is counted nowhere.
findBinNoFallback(bins, v) ==
    IF \E b \in 1..Len(bins) : binCount * v >= bins[b].start /\ binCount * v < bins[b].end
    THEN CHOOSE b \in 1..Len(bins) :
            /\ binCount * v >= bins[b].start /\ binCount * v < bins[b].end
            /\ \A c \in 1..(b - 1) :
                  ~(binCount * v >= bins[c].start /\ binCount * v < bins[c].end)
    ELSE 0

\* bins.find(b => v >= b.start && v < b.end) || bins[bins.length - 1]: the
\* index of the bin that counts v.
findBin(bins, v) ==
    IF \E b \in 1..Len(bins) : binCount * v >= bins[b].start /\ binCount * v < bins[b].end
    THEN CHOOSE b \in 1..Len(bins) :
            /\ binCount * v >= bins[b].start /\ binCount * v < bins[b].end
            /\ \A c \in 1..(b - 1) :
                  ~(binCount * v >= bins[c].start /\ binCount * v < bins[c].end)
    ELSE Len(bins)

\* The yAxis values of the submissions, coerced and sorted.
HistogramValues(subs, cfg) ==
    SortAsc([k \in 1..Len(subs) |-> Coerce(Get(subs[k].data, cfg.yAxis))])

Histogram(subs, cfg) ==
    LET values == HistogramValues(subs, cfg)
        bins == EmptyBins(values[1], values[Len(values)], cfg.target)
    IN  IF Len(values) = 0 THEN <<>>
        ELSE [b \in 1..binCount |->
                [bins[b] EXCEPT
                    !.count = Cardinality({k \in 1..Len(values) :
                                              findBin(bins, values[k]) = b})]]

\* Math.round(p / q) for q # 0: the nearest integer, a tie going up.
MathRound(p, q) ==
    IF q > 0 THEN (2 * p + q) \div (2 * q)
    ELSE (2 * (0 - p) + (0 - q)) \div (2 * (0 - q))

\* Math.round((cumulative / total) * 100); a zero total divides by zero.
cumulativePercentage(cumulative, total) ==
    IF total # 0 THEN Finite(MathRound(100 * cumulative, total))
    ELSE IF cumulative = 0 THEN NaN
    ELSE Infinite(cumulative)

\* String(sub.data[config.xAxis] || 'Unknown')
GroupKey(v) == IF Falsy(v) THEN <<"U", "n", "k", "n", "o", "w", "n">> ELSE StringOf(v)

RECURSIVE Grouped(_, _, _, _)
\* submissions.forEach(...) filling grouped, from submission k on; g lists
\* the properties of grouped in the order of their creation.
Grouped(subs, cfg, k, g) ==
    IF k > Len(subs) THEN g
    ELSE LET key == GroupKey(Get(subs[k].data, cfg.xAxis))
             val == Coerce(Get(subs[k].data, cfg.yAxis))
         IN  Grouped(subs, cfg, k + 1,
                     IF \E j \in 1..Len(g) : g[j].name = key
                     THEN [j \in 1..Len(g) |->
                              IF g[j].name = key
                              THEN [g[j] EXCEPT !.value = @ + val]
                              ELSE g[j]]
                     ELSE Append(g, [name |-> key, value |-> val]))

\* A property name that is an array index: a canonical decimal number.
IsArrayIndex(name) == AllDigits(name) /\ (Len(name) = 1 \/ name[1] # "0")

RECURSIVE InsertByIndex(_, _)
InsertByIndex(q, e) ==
    IF Len(q) = 0 THEN <<e>>
    ELSE IF DigitsVal(e.name) < DigitsVal(Head(q).name) THEN <<e>> \o q
    ELSE <<Head(q)>> \o InsertByIndex(Tail(q), e)

RECURSIVE IndexEntries(_)
IndexEntries(g) ==
    IF Len(g) = 0 THEN <<>>
    ELSE IF IsArrayIndex(g[Len(g)].name)
    THEN InsertByIndex(IndexEntries(SubSeq(g, 1, Len(g) - 1)), g[Len(g)])
    ELSE IndexEntries(SubSeq(g, 1, Len(g) - 1))

\* Object.entries(grouped): the array-index names in ascending order, then
\* the other names in the order of their creation.
ObjectEntries(g) == IndexEntries(g) \o SelectSeq(g, LAMBDA e : ~IsArrayIndex(e.name))

RECURSIVE InsertDesc(_, _)
InsertDesc(q, e) ==
    IF Len(q) = 0 THEN <<e>>
    ELSE IF e.value > Head(q).value THEN <<e>> \o q
    ELSE <<Head(q)>> \o InsertDesc(Tail(q), e)

\* SortDesc without the sort: the entries in the order of Object.entries.
SortDescSkipped(q) == q

RECURSIVE SortDesc(_)
\* .sort((a, b) => b.value - a.value), a stable sort.
SortDesc(q) ==
    IF Len(q) = 0 THEN <<>>
    ELSE InsertDesc(SortDesc(SubSeq(q, 1, Len(q) - 1)), q[Len(q)])

RECURSIVE SumValues(_, _)
\* The sum of the values of the first k entries.
SumValues(q, k) == IF k = 0 THEN 0 ELSE SumValues(q, k - 1) + q[k].value

\* cumulative before the value of the item is added.
RunningBefore(sorted, k) == SumValues(sorted, k - 1)

\* cumulative at item k of sorted.map: the values up to and including it.
Running(sorted, k) == SumValues(sorted, k)

Pareto(subs, cfg) ==
    LET sorted == SortDesc(ObjectEntries(Grouped(subs, cfg, 1, <<>>)))
        total == SumValues(sorted, Len(sorted))
    IN  [k \in 1..Len(sorted) |->
            [name |-> sorted[k].name, value |-> sorted[k].value,
             cumulativePercentage |-> cumulativePercentage(Running(sorted, k), total),
             target |-> cfg.target]]

\* SeriesPoint without the spread of sub.data: the derived keys only.
SeriesPointDerivedOnly(sub, index, cfg) ==
    [key \in {"index", cfg.yAxis, "target"} |->
        IF key = "target" THEN cfg.target
        ELSE IF key = cfg.yAxis THEN Num(Coerce(Get(sub.data, cfg.yAxis)))
        ELSE Num(index)]

\* One point of the default transform: the data map, then index, then the
\* coerced yAxis value, then target, a later key replacing an earlier one.
SeriesPoint(sub, index, cfg) ==
    [key \in (DOMAIN sub.data) \cup {"index", cfg.yAxis, "target"} |->
        IF key = "target" THEN cfg.target
        ELSE IF key = cfg.yAxis THEN Num(Coerce(Get(sub.data, cfg.yAxis)))
        ELSE IF key = "index" THEN Num(index)
        ELSE sub.data[key]]

Series(subs, cfg) ==
    [k \in 1..Len(subs) |-> SeriesPoint(subs[k], k, cfg)]

\* The guard of chartData: !config.xAxis || !config.yAxis returns [].
NeedsAxes(cfg) == cfg.xAxis # "" /\ cfg.yAxis # ""

chartData(subs, cfg) ==
    IF Len(subs) = 0 \/ ~NeedsAxes(cfg) THEN <<>>
    ELSE IF cfg.type = "histogram" THEN Histogram(subs, cfg)
    ELSE IF cfg.type = "pareto" THEN Pareto(subs, cfg)
    ELSE Series(subs, cfg)

\* ------------------------------------------------------ analysis page

\* selectedForm === null.
NoForm == FormSchema("", "", <<>>)

FormCat ==
    FormSchema("fC", "Defects",
               << FormField("cat", "dropdown", TRUE),
                  FormField("val", "number", TRUE) >>)

FormScore ==
    FormSchema("fS", "Scores", << FormField("Score", "number", TRUE) >>)

ChartForms == {FormCat, FormScore}

CatRows ==
    { [cat |-> Str(<<"A">>), val |-> Num(10)],
      [cat |-> Str(<<"B">>), val |-> Num(30)],
      [cat |-> Num(0), val |-> Str(<<"4", "2">>)],
      [val |-> Num(0 - 5)] }

ScoreRows ==
    { [Score |-> Num(10)], [Score |-> Num(100)],
      [Score |-> Str(<<"a", "b", "c">>)], [Score |-> Null] }

\* Score values 10, 20, ..., 100.
ScenarioScores == [k \in 1..10 |-> [Score |-> Num(10 * k)]]

\* (A, 10), (B, 30), (A, 10).
ScenarioPareto ==
    << [cat |-> Str(<<"A">>), val |-> Num(10)],
       [cat |-> Str(<<"B">>), val |-> Num(30)],
       [cat |-> Str(<<"A">>), val |-> Num(10)] >>

AsSubmissions(form, rows) ==
    [k \in 1..Len(rows) |-> Submission(StoredId(k), form, rows[k], "u0", "server")]

CatDatasets ==
    {AsSubmissions(FormCat, q) : q \in SeqsUpTo(CatRows, MaxPoints) \cup {ScenarioPareto}}

ScoreDatasets ==
    {AsSubmissions(FormScore, q) : q \in SeqsUpTo(ScoreRows, MaxPoints) \cup {ScenarioScores}}

\* A form with number fields that carry the names of the derived keys.
FormIdx ==
    FormSchema("fI", "Ranks",
               << FormField("label", "text", TRUE),
                  FormField("index", "number", TRUE),
                  FormField("target", "number", FALSE),
                  FormField("qty", "number", TRUE) >>)

IdxRows ==
    { [label |-> Str(<<"A">>), index |-> Num(7), target |-> Num(9), qty |-> Num(3)],
      [label |-> Str(<<"B">>), index |-> Str(<<"4", "2">>), qty |-> Num(0)],
      [label |-> Str(<<"C">>), index |-> Num(1), target |-> Num(50),
       qty |-> Str(<<"a">>)] }

IdxDatasets == {AsSubmissions(FormIdx, q) : q \in SeqsUpTo(IdxRows, MaxPoints)}

\* What the store may return for the submissions of a form.
Datasets(form) ==
    IF form = FormCat THEN CatDatasets
    ELSE IF form = FormIdx THEN IdxDatasets
    ELSE ScoreDatasets

ChartTypes ==
    {"column", "bar", "line", "area", "combo", "scatter", "histogram", "pareto"}

\* The types the type buttons are pressed for: one of the types that chartData
\* does not tell apart from column, and the others.
TypesTried == {"column", "scatter", "histogram", "pareto"}

\* fields.filter(f => types.includes(f.type))[0]?.name, or undefined (here "").
FirstFieldOf(form, types) ==
    IF \E k \in 1..Len(form.fields) : form.fields[k].type \in types
    THEN form.fields[CHOOSE k \in 1..Len(form.fields) :
                        /\ form.fields[k].type \in types
                        /\ \A j \in 1..(k - 1) : form.fields[j].type \notin types].name
    ELSE ""

\* a || b on field names, "" being falsy.
OrElse(a, b) == IF a # "" THEN a ELSE b

\* The dependencies of the effect that resets the zoom.
ResetDepsNoType(cfg, form) == << cfg.yAxis, form >>

ResetDeps(cfg, form) == << cfg.yAxis, cfg.type, form >>

\* The reset effect after a render with the new config cfg and the new
\* selected form: setYDomain([0, 'auto']) when a dependency changed.
ViewEffect(cfg, form) ==
    /\ IF ResetDeps(cfg, form) # ResetDeps(config, selectedForm)
       THEN /\ yDomain' = ResetDomain
            /\ gestures' = <<>>
            /\ zoomCleared' = (zoomCleared \/ yDomain # ResetDomain)
       ELSE UNCHANGED << yDomain, gestures, zoomCleared >>
    /\ UNCHANGED << isDragging, lastY >>

\* The onChange of the form select, and the effect of [selectedForm] that
\* follows it: a fetch starts, or the submissions are cleared.
selectForm(form) ==
    /\ form # selectedForm
    /\ form \notin fetches
    /\ selectedForm' = form
    /\ config' = [config EXCEPT !.xAxis = "", !.yAxis = ""]
    /\ ViewEffect([config EXCEPT !.xAxis = "", !.yAxis = ""], form)
    /\ IF form # NoForm
       THEN /\ loading' = TRUE
            /\ fetches' = fetches \cup {form}
            /\ UNCHANGED submissions
       ELSE /\ submissions' = <<>>
            /\ UNCHANGED << loading, fetches >>
    /\ UNCHANGED << pc, data, parsed, i, promises, calls, outcome, successCount,
                    errorCount, okBy, errBy, toast, formData, editingId,
                    submitting, pending, attempt, typed, probe, pageVars >>

\* getDocs of the fetch started for form answers: fetchSubmissions runs to
\* its end with the selectedForm of the render that started it.
AutoSelected(cfg, form) ==
    [cfg EXCEPT
        !.xAxis = OrElse(@, OrElse(FirstFieldOf(form, {"date", "time"}),
                                   FirstFieldOf(form, {"text", "dropdown"}))),
        !.yAxis = OrElse(@, FirstFieldOf(form, {"number", "decimal"}))]

fetchDone(form, ok, docs) ==
    /\ form \in fetches
    /\ IF ok
       THEN /\ docs \in Datasets(form)
            /\ submissions' = docs
            /\ config' = AutoSelected(config, form)
            /\ ViewEffect(AutoSelected(config, form), selectedForm)
       ELSE /\ docs = <<>>
            /\ UNCHANGED << submissions, config, viewVars >>
    /\ loading' = FALSE
    /\ fetches' = fetches \ {form}
    /\ UNCHANGED << selectedForm, pc, data, parsed, i, promises, calls, outcome,
                    successCount, errorCount, okBy, errBy, toast, formData,
                    editingId, submitting, pending, attempt, typed, probe, pageVars >>

\* What the handlers that only set config leave alone.
notConfig ==
    << selectedForm, pc, data, parsed, i, promises, calls, outcome, successCount,
       errorCount, okBy, errBy, loading, toast, entryVars, fetches, probe, pageVars >>

setType(type) ==
    /\ selectedForm # NoForm
    /\ config' = [config EXCEPT !.type = type]
    /\ ViewEffect([config EXCEPT !.type = type], selectedForm)
    /\ UNCHANGED notConfig

\* The X-axis select: shown unless the type is histogram; any field or none.
setXAxis(name) ==
    /\ selectedForm # NoForm
    /\ config.type # "histogram"
    /\ name \in FieldNames(selectedForm) \cup {""}
    /\ config' = [config EXCEPT !.xAxis = name]
    /\ UNCHANGED << notConfig, viewVars >>

\* The Y-axis select: a number or decimal field, or none.
setYAxis(name) ==
    /\ selectedForm # NoForm
    /\ \/ name = ""
       \/ \E k \in 1..Len(selectedForm.fields) :
             /\ selectedForm.fields[k].name = name
             /\ selectedForm.fields[k].type \in {"number", "decimal"}
    /\ config' = [config EXCEPT !.yAxis = name]
    /\ ViewEffect([config EXCEPT !.yAxis = name], selectedForm)
    /\ UNCHANGED notConfig

\* The target input: Number(e.target.value) || undefined.
setTarget(n) ==
    /\ selectedForm # NoForm
    /\ config' = [config EXCEPT !.target = IF n = 0 THEN Undefined ELSE Num(n)]
    /\ UNCHANGED << notConfig, viewVars >>

InitChart ==
    /\ selectedForm = NoForm
    /\ ImportIdle
    /\ EntryIdle
    /\ ChartIdle
    /\ ProbeIdle

NextChart ==
    \/ \E form \in ChartForms \cup {NoForm} : selectForm(form)
    \/ \E form \in fetches : \E docs \in Datasets(form) : fetchDone(form, TRUE, docs)
    \/ \E form \in fetches : fetchDone(form, FALSE, <<>>)
    \/ \E type \in TypesTried : setType(type)
    \/ \E name \in {"", "cat", "val", "Score"} : setXAxis(name)
    \/ \E name \in {"", "cat", "val", "Score"} : setYAxis(name)
    \/ \E n \in {0, 50} : setTarget(n)

SpecChart == InitChart /\ [][NextChart]_vars

\* The analysis page over the form whose fields are named like derived keys.
NextSeries ==
    \/ \E form \in {FormIdx, NoForm} : selectForm(form)
    \/ \E form \in fetches : \E docs \in Datasets(form) : fetchDone(form, TRUE, docs)
    \/ \E form \in fetches : fetchDone(form, FALSE, <<>>)
    \/ \E type \in TypesTried : setType(type)
    \/ \E name \in {"", "label"} : setXAxis(name)
    \/ \E name \in {"", "index", "target", "qty"} : setYAxis(name)
    \/ \E n \in {0, 50} : setTarget(n)

SpecSeries == InitChart /\ [][NextSeries]_vars

\* --------------------------------------------- aggregation: claims

\* The chart data of the page as it stands.
Chart == chartData(submissions, config)

\* C7: aggregate is empty exactly when there are no submissions or the axis
\* the chart type needs is unset: yAxis alone for histogram, xAxis alone for
\* pareto, both for the others; a histogram with yAxis set has its 10 bins.
C7_EmptyIffAxisUnset ==
    LET needed ==
            CASE config.type = "histogram" -> config.yAxis # ""
              [] config.type = "pareto" -> config.xAxis # ""
              [] OTHER -> config.xAxis # "" /\ config.yAxis # ""
    IN  /\ (Chart = <<>>) <=> (Len(submissions) = 0 \/ ~needed)
        /\ (config.type = "histogram" /\ Len(submissions) > 0 /\ config.yAxis # "")
              => Len(Chart) = binCount

\* The sorted yAxis values of the page's submissions.
Values == HistogramValues(submissions, config)

HistogramShown == config.type = "histogram" /\ Chart # <<>>

\* How many of the values equal the largest one.
MaxCount == Cardinality({k \in 1..Len(Values) : Values[k] = Values[Len(Values)]})

\* C8 as stated: the maximum of every non-empty series is counted in the
\* last bin, also when all values are equal.
C8_MaxInLastBinAlways ==
    HistogramShown => Chart[binCount].count >= MaxCount

\* C8, amended: the maximum is counted in the last bin when the values are
\* not all equal; when they are all equal the bins are min + i wide 1 and
\* every value is counted in the first bin.
C8_MaxInLastBin ==
    config.type = "histogram" =>
        LET chart == Chart
            vals == Values
        IN  chart # <<>> =>
            IF vals[Len(vals)] > vals[1]
            THEN chart[binCount].count >= MaxCount
            ELSE chart[1].count = Len(vals) /\ chart[binCount].count = 0

C8_Witness ==
    /\ HistogramShown
    /\ Len(Values) >= 2
    /\ Values[Len(Values)] > Values[1]
    /\ Chart[binCount].count >= 1

\* Ten times the bin width w of the claim: (max - min) / 10, or 1.
C9_WidthScaled(min, max) == IF max = min THEN 10 ELSE max - min

\* Value v lies in the half-open interval of bin b (b from 0) of width w / 10
\* starting at min.
C9_InBin(v, b, min, w) ==
    /\ 10 * v >= 10 * min + b * w
    /\ 10 * v < 10 * min + (b + 1) * w

RECURSIVE SumCounts(_, _)
SumCounts(bins, k) == IF k = 0 THEN 0 ELSE SumCounts(bins, k - 1) + bins[k].count

ParetoShown == config.type = "pareto" /\ Chart # <<>>

\* r is p / q rounded to the nearest integer, a tie going up (q # 0).
C10_IsRounded(r, p, q) ==
    IF q > 0 THEN 2 * q * r - q <= 2 * p /\ 2 * p < 2 * q * r + q
    ELSE 2 * (0 - q) * r + q <= 2 * (0 - p) /\ 2 * (0 - p) < 2 * (0 - q) * r - q

C11_KeyOf(j) == GroupKey(Get(submissions[j].data, config.xAxis))

C11_Keys == {C11_KeyOf(j) : j \in 1..Len(submissions)}

RECURSIVE C11_SumOver(_, _)
\* The sum of the coerced yAxis values of the submissions 1..j that are in
\* the set of indices J.
C11_SumOver(J, j) ==
    IF j = 0 THEN 0
    ELSE C11_SumOver(J, j - 1)
            + (IF j \in J THEN Coerce(Get(submissions[j].data, config.yAxis)) ELSE 0)

\* C11: the Pareto output has one point per distinct group key, each with
\* the sum of the coerced yAxis values of its group, in non-increasing order
\* of value, the values adding up to the sum over all submissions;
\* (A,10), (B,30), (A,10) gives B:30, A:20.
C11_ParetoGroups ==
    config.type = "pareto" =>
        LET chart == Chart
            all == 1..Len(submissions)
        IN  chart # <<>> =>
            /\ {chart[k].name : k \in 1..Len(chart)} = C11_Keys
            /\ Len(chart) = Cardinality(C11_Keys)
            /\ \A k \in 1..Len(chart) :
                  chart[k].value
                     = C11_SumOver({j \in all : C11_KeyOf(j) = chart[k].name},
                                   Len(submissions))
            /\ \A k \in 1..(Len(chart) - 1) : chart[k].value >= chart[k + 1].value
            /\ SumValues(chart, Len(chart)) = C11_SumOver(all, Len(submissions))
            /\ (submissions = AsSubmissions(FormCat, ScenarioPareto)
                    /\ config.xAxis = "cat" /\ config.yAxis = "val") =>
                  [k \in 1..Len(chart) |-> <<chart[k].name, chart[k].value>>]
                     = << <<<<"B">>, 30>>, <<<<"A">>, 20>> >>

C11_Witness ==
    /\ ParetoShown
    /\ submissions = AsSubmissions(FormCat, ScenarioPareto)
    /\ config.xAxis = "cat"
    /\ config.yAxis = "val"
    /\ Chart[1].name = <<"B">>
    /\ Chart[1].value = 30
    /\ Chart[2].value = 20

\* The chart types of the default transform.
SeriesTypes == {"column", "bar", "line", "area", "combo", "scatter"}

\* C12: for the six series types with both axes set there is one point per
\* submission, in submission order, and point i carries every entry of the
\* data map of submission i, the derived keys apart, unchanged.
C12_SeriesPassthrough ==
    (config.xAxis # "" /\ config.yAxis # "") =>
        \A type \in SeriesTypes :
            LET out == chartData(submissions, [config EXCEPT !.type = type])
            IN  /\ Len(out) = Len(submissions)
                /\ \A j \in 1..Len(submissions) :
                      \A key \in (DOMAIN submissions[j].data)
                                      \ {"index", config.yAxis, "target"} :
                          /\ key \in DOMAIN out[j]
                          /\ out[j][key] = submissions[j].data[key]

C12_Witness ==
    /\ config.type \in SeriesTypes
    /\ config.xAxis = "cat"
    /\ config.yAxis = "val"
    /\ Len(submissions) = 2
    /\ Len(Chart) = 2
    /\ \A j \in 1..2 : "cat" \in DOMAIN submissions[j].data
    /\ Chart[2]["cat"] = Str(<<"B">>)
    /\ Chart[1]["cat"] # Chart[2]["cat"]

\* ------------------------------------------------ viewport controller

\* Number(d[config.yAxis]) || 0 for the point d of the chart data.  A bin or
\* a Pareto group has no property named like a yAxis field of the forms of
\* the model, so d[config.yAxis] is undefined there.
PlottedValue(cfg, d) ==
    IF cfg.type \in {"histogram", "pareto"} THEN 0 ELSE Coerce(Get(d, cfg.yAxis))

RECURSIVE MaxPlotted(_, _, _)
\* Math.max(...chartData.map(d => Number(d[config.yAxis]) || 0)) over the
\* first k points (k >= 1).
MaxPlotted(cfg, chart, k) ==
    IF k = 1 THEN PlottedValue(cfg, chart[1])
    ELSE LET m == MaxPlotted(cfg, chart, k - 1)
             v == PlottedValue(cfg, chart[k])
         IN  IF v > m THEN v ELSE m

\* Math.max(...) * 1.1
maxDataValue(cfg, chart) == Rat(11 * MaxPlotted(cfg, chart, Len(chart)), 10)

\* e.deltaY > 0 ? 0.10 : -0.10
zoomFactor(deltaY) == IF deltaY > 0 THEN Rat(1, 10) ELSE Rat(0 - 1, 10)

\* finalRange without the clamp.
finalRangeUnclamped(newRange, maxData) == newRange

\* Math.min(newRange, maxDataValue)
finalRange(newRange, maxData) == MathMin(newRange, maxData)

\* The entry of the event log: the handler, its input (deltaY, or the
\* pointer delta lastY.current - e.clientY), and for a wheel event the
\* number of points of the chart and their maximum.
Gesture(h, d, chart) ==
    [h |-> h, d |-> d, points |-> Len(chart),
     max |-> IF chart = <<>> THEN 0 ELSE MaxPlotted(config, chart, Len(chart))]

notView == << importVars, entryVars, chartVars, probe, pageVars >>

resetZoom ==
    /\ yDomain' = ResetDomain
    /\ gestures' = <<>>
    /\ zoomCleared' = (zoomCleared \/ yDomain # ResetDomain)
    /\ UNCHANGED << isDragging, lastY, notView >>

handleWheel(deltaY) ==
    /\ Len(gestures) < MaxGestures
    /\ LET chart == chartData(submissions, config)
       IN  /\ gestures' = Append(gestures, Gesture("wheel", deltaY, chart))
           /\ IF chart = <<>>
              THEN UNCHANGED << yDomain, zoomCleared >>
              ELSE LET currentMax == IF yDomain[2].auto
                                     THEN maxDataValue(config, chart)
                                     ELSE yDomain[2]
                       currentMin == IF yDomain[1].auto THEN Rat(0, 1)
                                     ELSE yDomain[1]
                       range == RatSub(currentMax, currentMin)
                       newRange ==
                           RatMul(range, RatAdd(Rat(1, 1), zoomFactor(deltaY)))
                       final == finalRange(newRange, maxDataValue(config, chart))
                   IN  /\ yDomain' = << currentMin, RatAdd(currentMin, final) >>
                       /\ zoomCleared' = FALSE
    /\ UNCHANGED << isDragging, lastY, notView >>

handleMouseDown(clientY) ==
    /\ isDragging' = TRUE
    /\ lastY' = clientY
    /\ UNCHANGED << yDomain, gestures, zoomCleared, notView >>

\* panned that moves the upper end only.
pannedMaxOnly(dom, shift) == << dom[1], RatAdd(dom[2], shift) >>

\* prev => [prev[0] + shift, prev[1] + shift]
panned(dom, shift) == << RatAdd(dom[1], shift), RatAdd(dom[2], shift) >>

handleMouseMove(clientY) ==
    /\ Len(gestures) < MaxGestures
    /\ gestures' = Append(gestures, Gesture("move", lastY - clientY, <<>>))
    /\ IF isDragging /\ ~yDomain[2].auto
       THEN LET delta == lastY - clientY
                range == RatSub(yDomain[2], yDomain[1])
                factor == RatMul(range, Rat(2, 1000))
                shift == RatMul(Rat(delta, 1), factor)
            IN  /\ yDomain' = panned(yDomain, shift)
                /\ lastY' = clientY
                /\ zoomCleared' = FALSE
       ELSE UNCHANGED << yDomain, lastY, zoomCleared >>
    /\ UNCHANGED << isDragging, notView >>

\* onMouseUp and onMouseLeave
handleMouseUp ==
    /\ isDragging' = FALSE
    /\ UNCHANGED << yDomain, lastY, gestures, zoomCleared, notView >>

\* The datasets the zoomed charts are drawn from.
ZoomDatasets(form) ==
    IF form = FormCat THEN {AsSubmissions(FormCat, ScenarioPareto)}
    ELSE {AsSubmissions(FormScore, << [Score |-> Num(10)], [Score |-> Num(100)] >>)}

ZoomTypes == {"column", "histogram", "pareto"}

PointerYs == {0, 5}

\* e.deltaY of a wheel event: scroll back, a purely horizontal scroll,
\* scroll forward.
WheelDeltas == {0 - 1, 0, 1}

InitZoom ==
    /\ selectedForm = NoForm
    /\ ImportIdle
    /\ EntryIdle
    /\ ChartIdle
    /\ ProbeIdle

NextZoom ==
    \/ fetches = {} /\ \E form \in ChartForms : selectForm(form)
    \/ \E form \in fetches : \E docs \in ZoomDatasets(form) : fetchDone(form, TRUE, docs)
    \/ \E type \in ZoomTypes : setType(type)
    \/ setXAxis("Score")
    \/ \E name \in {"", "val", "Score"} : setYAxis(name)
    \/ resetZoom
    \/ \E deltaY \in WheelDeltas : handleWheel(deltaY)
    \/ \E clientY \in PointerYs : handleMouseDown(clientY)
    \/ \E clientY \in PointerYs : handleMouseMove(clientY)
    \/ handleMouseUp

SpecZoom == InitZoom /\ [][NextZoom]_vars

\* ------------------------------------------- numeric coercion: probe

RawChars == {"4", "2", "a", "-"}

\* The raw yAxis values a stored submission may hold.
RawValues ==
    {Undefined, Null}
        \cup {Num(n) : n \in (0 - 2)..2}
        \cup {Str(q) : q \in SeqsUpTo(RawChars, MaxRawLen)
                          \cup {<<"a", "b", "c">>, InfinityChars,
                                <<"-">> \o InfinityChars}}

Transforms == {"histogram", "pareto", "series"}

\* Number(s.data[config.yAxis]) || 0, as each transform evaluates it for the
\* yAxis value of a submission.
coerceYAxis(transform) ==
    /\ probe.transform = "none"
    /\ probe' = [probe EXCEPT !.transform = transform,
                              !.value = CoerceNumber(probe.raw)]
    /\ UNCHANGED << importVars, entryVars, chartVars, viewVars, pageVars >>

InitCoerce ==
    /\ selectedForm = NoForm
    /\ ImportIdle
    /\ EntryIdle
    /\ ChartIdle
    /\ PagesIdle
    /\ probe \in {[NoProbe EXCEPT !.raw = v] : v \in RawValues}

NextCoerce == \E transform \in Transforms : coerceYAxis(transform)

SpecCoerce == InitCoerce /\ [][NextCoerce]_vars

\* C13: in every transform the yAxis value used is the parsed number when the
\* raw value parses to a finite number and 0 otherwise; "abc" gives 0, "42"
\* gives 42, and the value is always finite.
C13_CoerceFinite ==
    probe.transform # "none" =>
        /\ probe.value.kind = "finite"
        /\ probe.value = IF NumberOf(probe.raw).kind = "finite"
                         THEN NumberOf(probe.raw)
                         ELSE Finite(0)
        /\ probe.raw = Str(<<"a", "b", "c">>) => probe.value = Finite(0)
        /\ probe.raw = Str(<<"4", "2">>) => probe.value = Finite(42)

\* -------------------------------------------------- viewport: claims

RECURSIVE C14_Max(_)
\* The largest coerced yAxis value of the submissions 1..j (j >= 1).
C14_Max(j) ==
    LET v == Coerce(Get(submissions[j].data, config.yAxis))
    IN  IF j = 1 THEN v
        ELSE IF v > C14_Max(j - 1) THEN v ELSE C14_Max(j - 1)

\* Only zoom ticks, all of them over data with maximum M, since the reset.
C14_OnlyZooms(M) ==
    \A k \in 1..Len(gestures) :
        gestures[k].h = "wheel" /\ gestures[k].points > 0 /\ gestures[k].max = M

C15_IsMove ==
    /\ Len(gestures') = Len(gestures) + 1
    /\ gestures'[Len(gestures')].h = "move"

\* C15: a pointer move changes the viewport only while a drag is active and
\* yMax is a number; it then adds delta * range * 0.002 to yMin and to yMax,
\* which keeps yMax - yMin; while yMax is 'auto' the viewport stays.
C15_PanShiftsBoth ==
    [][ C15_IsMove =>
          IF isDragging /\ ~yDomain[2].auto
          THEN LET range == RatSub(yDomain[2], yDomain[1])
                   delta == gestures'[Len(gestures')].d
                   shift == RatMul(range, Rat(delta * 2, 1000))
               IN  /\ yDomain'[1] = RatAdd(yDomain[1], shift)
                   /\ yDomain'[2] = RatAdd(yDomain[2], shift)
                   /\ RatSub(yDomain'[2], yDomain'[1]) = range
          ELSE yDomain' = yDomain ]_vars

C15_Witness ==
    /\ Len(gestures) = 2
    /\ gestures[1].h = "wheel"
    /\ gestures[1].points > 0
    /\ gestures[2].h = "move"
    /\ gestures[2].d # 0
    /\ ~yDomain[2].auto
    /\ yDomain[1] # Rat(0, 1)
    /\ isDragging

\* An effective zoom has happened since the last reset.
C16_Zoomed ==
    \E k \in 1..Len(gestures) : gestures[k].h = "wheel" /\ gestures[k].points > 0

\* C16: a change of config.yAxis, of config.type or of the selected form, and
\* the reset action, make the viewport (0, 'auto'); yMin is always a number,
\* and yMax is 'auto' exactly when no effective zoom happened since the last
\* reset.
C16_ResetOnChange ==
    /\ [](~yDomain[1].auto /\ (yDomain[2].auto <=> ~C16_Zoomed))
    /\ [][ (\/ config'.yAxis # config.yAxis
            \/ config'.type # config.type
            \/ selectedForm' # selectedForm
            \/ (gestures # <<>> /\ gestures' = <<>>))
           => yDomain' = ResetDomain ]_vars

C16_Witness ==
    /\ zoomCleared
    /\ yDomain = ResetDomain
    /\ gestures = <<>>
    /\ config.type = "histogram"

\* ---------------------------------------------- manual entry: claims

\* The step ends a waiting handleSubmit call with the given message.
SettledWith(kind) == Len(pending') < Len(pending) /\ toast'.kind = kind

\* C17: when the create or update of a manual submission fails, the local
\* list, the entered row and editingId stay as they were and submitting
\* becomes false.
C17_FailureLeavesState ==
    [][ SettledWith("failed") =>
          /\ submissions' = submissions
          /\ formData' = formData
          /\ editingId' = editingId
          /\ submitting' = FALSE ]_vars

C17_Witness ==
    /\ toast.kind = "failed"
    /\ attempt.wrote
    /\ ~submitting
    /\ pending = <<>>
    /\ editingId # NoId
    /\ formData # EmptyRow
    /\ \E j \in 1..Len(submissions) :
          submissions[j].id = editingId /\ submissions[j].data # formData

\* C18: a successful edit replaces the data map of exactly the submission
\* whose id is the editingId of the call, keeps its formId, formName,
\* submittedBy and submittedAt, every other submission, and the order and
\* length of the list; then editingId is null and the entered row is empty.
C18_EditReplacesData ==
    [][ SettledWith("updated") =>
          \E k \in 1..Len(pending) :
              /\ pending' = RemoveAt(pending, k)
              /\ pending[k].editingId # NoId
              /\ Len(submissions') = Len(submissions)
              /\ \A j \in 1..Len(submissions) :
                    /\ submissions'[j].id = submissions[j].id
                    /\ submissions'[j].formId = submissions[j].formId
                    /\ submissions'[j].formName = submissions[j].formName
                    /\ submissions'[j].submittedBy = submissions[j].submittedBy
                    /\ submissions'[j].submittedAt = submissions[j].submittedAt
                    /\ submissions'[j].data =
                          IF submissions[j].id = pending[k].editingId
                          THEN pending[k].data
                          ELSE submissions[j].data
              /\ editingId' = NoId
              /\ formData' = EmptyRow ]_vars

C18_Witness ==
    /\ toast.kind = "updated"
    /\ editingId = NoId
    /\ formData = EmptyRow
    /\ pending = <<>>
    /\ Len(submissions) = 2
    /\ submissions[1].data # submissions[2].data

\* ------------------------------------------ bulk import: more claims

\* The number of batches of N rows: ceil(N / batchSize).
C19_Count(N) == (N + batchSize - 1) \div batchSize

\* The batches started so far.
C19_Started == IF pc = "running" THEN i \div batchSize + 1 ELSE i \div batchSize

\* C19: an import of N >= 1 rows dispatches ceil(N / width) batches in row
\* order, each of width consecutive rows except the last, which holds the
\* rest; with the width 400 of the source, 850 rows give 400, 400, 50.
C19_BatchPartition ==
    /\ BatchSizes(0, 850, sourceBatchSize) = <<400, 400, 50>>
    /\ (pc # "idle" /\ Len(parsed) >= 1) =>
          LET N == Len(parsed)
              last == IF C19_Started * batchSize < N THEN C19_Started * batchSize
                      ELSE N
          IN  /\ i % batchSize = 0
              /\ C19_Started <= C19_Count(N)
              /\ pc = "done" => C19_Started = C19_Count(N)
              /\ {r \in 1..N : promises[r] # "none"} = 1..last
              /\ BatchSizes(0, N, batchSize)
                    = [b \in 1..C19_Count(N) |->
                          IF b < C19_Count(N) THEN batchSize
                          ELSE N - batchSize * (C19_Count(N) - 1)]
              /\ \A j, k \in 1..Len(calls) : j < k => calls[j].row < calls[k].row

C19_Witness ==
    /\ pc = "done"
    /\ Len(parsed) = batchSize + 1
    /\ C19_Started = 2
    /\ BatchSizes(0, Len(parsed), batchSize) = << batchSize, 1 >>
    /\ \A r \in 1..Len(parsed) : promises[r] = "fulfilled"

\* C20: with a sheet of zero rows the import reports the empty-file error,
\* processes no row, writes nothing, reports no counts, and loading is false.
C20_EmptySheet ==
    (pc = "done" /\ Len(parsed) = 0) =>
        /\ toast.kind = "empty"
        /\ toast.kind # "complete"
        /\ data = <<>>
        /\ promises = <<>>
        /\ calls = <<>>
        /\ successCount = 0
        /\ errorCount = 0
        /\ ~loading

C20_Witness ==
    /\ pc = "done"
    /\ parsed = <<>>
    /\ toast.kind = "empty"
    /\ ~loading

\* ---------------------------------------------------- template download

\* The header row with a repeated name written once.
headersDistinct(form) ==
    SelectSeq([k \in 1..Len(form.fields) |-> form.fields[k].name],
              LAMBDA name : \A k \in 1..Len(form.fields) :
                                form.fields[k].name = name =>
                                    \A j \in 1..(k - 1) : form.fields[j].name # name)

\* selectedForm.fields.map(f => f.name)
headers(form) == [k \in 1..Len(form.fields) |-> form.fields[k].name]

\* The sheet "Template" holds the one row headers; the file is named after
\* the form.
handleDownloadTemplate ==
    /\ selectedForm # NoForm
    /\ ~template.written
    /\ template' = [written |-> TRUE, headers |-> headers(selectedForm),
                    file |-> selectedForm.name]
    /\ UNCHANGED << importVars, entryVars, chartVars, viewVars, probe, builderVars,
                    authVars >>

\* The names a field of a form may carry; one form may use a name twice.
TemplateNames == {"Name", "Qty", "index", ""}

\* Forms of up to MaxFields fields of every type.
TemplateForms ==
    {FormSchema("fT", "Tpl",
                [k \in 1..Len(q) |-> FormField(q[k][1], q[k][2], FALSE)]) :
        q \in SeqsUpTo(TemplateNames \X {"text", "number"}, MaxFields)}

InitTemplate ==
    /\ selectedForm \in TemplateForms \cup {NoForm}
    /\ ImportIdle
    /\ EntryIdle
    /\ ChartIdle
    /\ ProbeIdle

NextTemplate == handleDownloadTemplate

SpecTemplate == InitTemplate /\ [][NextTemplate]_vars

\* C21: the header row of the template has form.fields.length entries, and
\* entry i is the name of field i of the form, in the order of the fields.
C21_TemplateHeaders ==
    template.written =>
        /\ Len(template.headers) = Len(selectedForm.fields)
        /\ \A k \in 1..Len(selectedForm.fields) :
              template.headers[k] = selectedForm.fields[k].name

C21_Witness ==
    /\ template.written
    /\ Len(selectedForm.fields) = 3
    /\ selectedForm.fields[1].name = selectedForm.fields[3].name
    /\ selectedForm.fields[1].name # selectedForm.fields[2].name
    /\ template.headers[3] = selectedForm.fields[3].name

\* ------------------------------------------- viewport: more claims

\* The step is a wheel event over non-empty chart data.
C22_IsZoom ==
    /\ Len(gestures') = Len(gestures) + 1
    /\ gestures'[Len(gestures')].h = "wheel"
    /\ gestures'[Len(gestures')].points > 0

C22_Sign(d) == IF d > 0 THEN 1 ELSE IF d < 0 THEN 0 - 1 ELSE 0

\* C22: a scroll with delta d sets the viewport to
\* (currentMin, currentMin + min(range * (1 + 0.10 * sign(d)), 1.1 * max))
\* with sign(d) in {-1, 0, 1}; yMin stays, and d = 0 leaves the range as it
\* was.
C22_ZoomArithmetic ==
    [][ C22_IsZoom =>
          LET g == gestures'[Len(gestures')]
              envelope == Rat(11 * g.max, 10)
              currentMin == IF yDomain[1].auto THEN Rat(0, 1) ELSE yDomain[1]
              currentMax == IF yDomain[2].auto THEN envelope ELSE yDomain[2]
              range == RatSub(currentMax, currentMin)
              newRange == RatMul(range, Rat(10 + C22_Sign(g.d), 10))
          IN  /\ yDomain' = << currentMin,
                               RatAdd(currentMin, MathMin(newRange, envelope)) >>
              /\ yDomain'[1] = yDomain[1]
              /\ g.d = 0 => RatSub(yDomain'[2], yDomain'[1]) = range ]_vars

RECURSIVE C26_MaxOf(_, _, _)
\* The largest of the fields named key of the first k points (k >= 1).
C26_MaxOf(chart, key, k) ==
    IF k = 1 THEN chart[1][key]
    ELSE LET m == C26_MaxOf(chart, key, k - 1)
         IN  IF chart[k][key] > m THEN chart[k][key] ELSE m

\* The largest plotted value: bin count, group sum or yAxis value.
C26_PlottedMax ==
    LET chart == Chart
    IN  CASE config.type = "histogram" -> C26_MaxOf(chart, "count", Len(chart))
          [] config.type = "pareto" -> C26_MaxOf(chart, "value", Len(chart))
          [] OTHER -> MaxPlotted(config, chart, Len(chart))

\* C26: for every chart type a zoom tick over non-empty chart data whose
\* plotted values have a positive maximum gives a viewport with yMax > yMin.
C26_ZoomKeepsWidth ==
    [][ (C22_IsZoom /\ C26_PlottedMax > 0) =>
            /\ ~yDomain'[2].auto
            /\ RatLess(yDomain'[1], yDomain'[2]) ]_vars

\* ------------------------------------------ aggregation: more claims

\* The name the group of a value carries when only a missing value (absent
\* or null) is named "Unknown": otherwise the string form of the value.
C23_NameOf(v) ==
    IF v = Undefined \/ v = Null THEN <<"U", "n", "k", "n", "o", "w", "n">>
    ELSE StringOf(v)

C23_XValue(j) == Get(submissions[j].data, config.xAxis)

\* C23: two submissions are in one Pareto group exactly when the string
\* forms of their xAxis values are equal; only a missing value (absent or
\* null) is grouped under "Unknown", and a present value such as the
\* number 0 names its group by its own string form.
C23_UnknownOnlyMissing ==
    config.type = "pareto" =>
        LET chart == Chart
            all == 1..Len(submissions)
        IN  chart # <<>> =>
            /\ {chart[k].name : k \in 1..Len(chart)}
                  = {C23_NameOf(C23_XValue(j)) : j \in all}
            /\ \A j, k \in all :
                  (GroupKey(C23_XValue(j)) = GroupKey(C23_XValue(k)))
                     <=> (C23_NameOf(C23_XValue(j)) = C23_NameOf(C23_XValue(k)))
            /\ \A j \in all :
                  C23_XValue(j) = Num(0) =>
                      \E k \in 1..Len(chart) : chart[k].name = <<"0">>

\* C24: for every yAxis field, also one named "index" or "target", point i
\* of a series transform has index = i, [yAxis] = the coerced yAxis value of
\* submission i, and target = config.target.
C24_DerivedKeys ==
    config.type \in SeriesTypes =>
        LET chart == Chart
        IN  \A j \in 1..Len(chart) :
                /\ chart[j]["index"] = Num(j)
                /\ chart[j][config.yAxis]
                      = Num(Coerce(Get(submissions[j].data, config.yAxis)))
                /\ chart[j]["target"] = config.target

\* ------------------------------------------------------- form builder

RECURSIVE trimStart(_)
trimStart(s) == IF s # <<>> /\ s[1] = " " THEN trimStart(Tail(s)) ELSE s

RECURSIVE trimEnd(_)
trimEnd(s) ==
    IF s # <<>> /\ s[Len(s)] = " " THEN trimEnd(SubSeq(s, 1, Len(s) - 1)) ELSE s

\* String.prototype.trim on strings whose only white space is the blank.
trim(s) == trimEnd(trimStart(s))

\* What the handlers of the form builder leave alone.
notBuilder ==
    << importVars, entryVars, chartVars, viewVars, probe, template, authVars >>

\* crypto.randomUUID(): an id that no field on the page carries.
FreshFieldId(fs) ==
    CHOOSE n \in 1..(Len(fs) + 1) : \A k \in 1..Len(fs) : fs[k].id # n

setFormName(name) ==
    /\ formName' = name
    /\ UNCHANGED << fields, editingFormId, builderLoading, saving, existingForms,
                    formWrites, alertMsg, notBuilder >>

addField ==
    /\ Len(fields) < MaxBuilderFields
    /\ fields' = Append(fields, [id |-> FreshFieldId(fields), name |-> <<>>])
    /\ UNCHANGED << formName, editingFormId, builderLoading, saving,
                    existingForms, formWrites, alertMsg, notBuilder >>

removeField(id) ==
    /\ \E k \in 1..Len(fields) : fields[k].id = id
    /\ fields' = SelectSeq(fields, LAMBDA f : f.id # id)
    /\ UNCHANGED << formName, editingFormId, builderLoading, saving,
                    existingForms, formWrites, alertMsg, notBuilder >>

\* updateField(field.id, { name: e.target.value })
updateField(id, name) ==
    /\ \E k \in 1..Len(fields) : fields[k].id = id /\ fields[k].name # name
    /\ fields' = [k \in 1..Len(fields) |->
                     IF fields[k].id = id THEN [fields[k] EXCEPT !.name = name]
                     ELSE fields[k]]
    /\ UNCHANGED << formName, editingFormId, builderLoading, saving,
                    existingForms, formWrites, alertMsg, notBuilder >>

handleEditForm(form) ==
    /\ editingFormId' = form.id
    /\ formName' = form.name
    /\ fields' = form.fields
    /\ UNCHANGED << builderLoading, saving, existingForms, formWrites, alertMsg,
                    notBuilder >>

\* setEditingFormId(null); setFormName(''); setFields([])
resetForm ==
    /\ editingFormId' = <<>>
    /\ formName' = <<>>
    /\ fields' = <<>>

\* The cancel button.
cancelEditForm ==
    /\ editingFormId # <<>>
    /\ resetForm
    /\ UNCHANGED << builderLoading, saving, existingForms, formWrites, alertMsg,
                    notBuilder >>

\* fields.some(f => !f.name.trim())
someFieldInvalid(fs) == \E k \in 1..Len(fs) : trim(fs[k].name) = <<>>

\* handleSaveForm up to its await: the three checks, then the write starts
\* with the name and the fields of this render.
handleSaveForm ==
    /\ ~builderLoading
    /\ Len(formWrites) < MaxSaves
    /\ IF trim(formName) = <<>>
       THEN /\ alertMsg' = "Please enter a form name"
            /\ UNCHANGED << builderLoading, saving >>
       ELSE IF Len(fields) = 0
       THEN /\ alertMsg' = "Please add at least one field"
            /\ UNCHANGED << builderLoading, saving >>
       ELSE IF someFieldInvalid(fields)
       THEN /\ alertMsg' = "All fields must have a name"
            /\ UNCHANGED << builderLoading, saving >>
       ELSE /\ builderLoading' = TRUE
            /\ saving' = << [id |-> editingFormId, name |-> formName,
                             fields |-> fields] >>
            /\ UNCHANGED alertMsg
    /\ UNCHANGED << formName, fields, editingFormId, existingForms, formWrites,
                    notBuilder >>

RECURSIVE FormId(_)
\* The id the store gives to the n-th form created.
FormId(n) == IF n = 0 THEN <<"f">> ELSE <<"+">> \o FormId(n - 1)

\* The list after fetchForms: a created form first, an updated one in place.
ListedAfter(list, write) ==
    IF write.id = <<>>
    THEN << [write EXCEPT !.id = FormId(Len(list))] >> \o list
    ELSE [k \in 1..Len(list) |->
             IF list[k].id = write.id THEN write ELSE list[k]]

\* The await of handleSaveForm answers: on success the alert, resetForm and
\* fetchForms (taken to answer at once); on failure the alert; then finally.
saveSettle(ok) ==
    /\ saving # <<>>
    /\ IF ok
       THEN /\ formWrites' = Append(formWrites, saving[1])
            /\ existingForms' = ListedAfter(existingForms, saving[1])
            /\ alertMsg' = IF saving[1].id # <<>> THEN "Form updated successfully!"
                           ELSE "Form created successfully!"
            /\ resetForm
       ELSE /\ alertMsg' = "Failed to save form"
            /\ UNCHANGED << formWrites, existingForms, formName, fields,
                            editingFormId >>
    /\ builderLoading' = FALSE
    /\ saving' = <<>>
    /\ UNCHANGED notBuilder

\* deleteDoc answered; the form leaves the list, and the editor if it is
\* being edited.
handleDeleteForm(id, ok) ==
    /\ \E k \in 1..Len(existingForms) : existingForms[k].id = id
    /\ IF ok
       THEN /\ existingForms' = SelectSeq(existingForms, LAMBDA f : f.id # id)
            /\ IF editingFormId = id THEN resetForm
               ELSE UNCHANGED << editingFormId, formName, fields >>
            /\ UNCHANGED alertMsg
       ELSE /\ alertMsg' = "Failed to delete form"
            /\ UNCHANGED << existingForms, editingFormId, formName, fields >>
    /\ UNCHANGED << builderLoading, saving, formWrites, notBuilder >>

\* What is typed into the name inputs.
FormNameInputs == {<<>>, <<" ">>, <<"F">>}

FieldNameInputs == {<<>>, <<" ">>, <<"a">>, <<"b">>}

InitBuilder ==
    /\ selectedForm = NoForm
    /\ ImportIdle
    /\ EntryIdle
    /\ ChartIdle
    /\ ProbeIdle

NextBuilder ==
    \/ \E name \in FormNameInputs : formName # name /\ setFormName(name)
    \/ addField
    \/ \E id \in 1..MaxBuilderFields : removeField(id)
    \/ \E id \in 1..MaxBuilderFields, name \in FieldNameInputs : updateField(id, name)
    \/ \E k \in 1..Len(existingForms) : handleEditForm(existingForms[k])
    \/ cancelEditForm
    \/ handleSaveForm
    \/ \E ok \in BOOLEAN : saveSettle(ok)
    \/ \E k \in 1..Len(existingForms), ok \in BOOLEAN :
          handleDeleteForm(existingForms[k].id, ok)

SpecBuilder == InitBuilder /\ [][NextBuilder]_vars

\* C25: every form handleSaveForm wrote to the store has a non-empty name,
\* at least one field, and field names that are non-empty and pairwise
\* distinct within the form.
C25_SavedFormsValid ==
    \A w \in 1..Len(formWrites) :
        LET form == formWrites[w]
        IN  /\ trim(form.name) # <<>>
            /\ Len(form.fields) >= 1
            /\ \A k \in 1..Len(form.fields) : trim(form.fields[k].name) # <<>>
            /\ \A j, k \in 1..Len(form.fields) :
                  j # k => form.fields[j].name # form.fields[k].name

\* ------------------------------------------------ switching the form

\* The analysis page with the form select alone in use and a store that
\* answers every fetch; the answers arrive in any order.
NextSwitch ==
    \/ \E form \in ChartForms \cup {FormIdx} : selectForm(form)
    \/ \E form \in fetches : \E docs \in Datasets(form) : fetchDone(form, TRUE, docs)

SpecSwitch == InitChart /\ [][NextSwitch]_vars

\* C27: once every outstanding submissions fetch has settled after a switch
\* of the selected form, in whatever order the answers came, the local list
\* holds only submissions of the selected form.
C27_ListOfSelectedForm ==
    (selectedForm # NoForm /\ fetches = {}) =>
        \A j \in 1..Len(submissions) : submissions[j].formId = selectedForm.id

\* ------------------------------------------------------ authentication

RECURSIVE endsWith(_, _)
\* String.prototype.endsWith
endsWith(s, suffix) ==
    IF suffix = <<>> THEN TRUE
    ELSE /\ s # <<>>
         /\ s[Len(s)] = suffix[Len(suffix)]
         /\ endsWith(SubSeq(s, 1, Len(s) - 1), SubSeq(suffix, 1, Len(suffix) - 1))

\* String.prototype.includes
includes(s, part) ==
    \E k \in 0..(Len(s) - Len(part)) : SubSeq(s, k + 1, k + Len(part)) = part

AdminChars == <<"a", "d", "m", "i", "n">>

DemoSuffix == <<"@", "d", "e", "m", "o", ".", "c", "o", "m">>

\* The e-mail addresses typed into the login form: two demo addresses and
\* the addresses of the accounts of the auth service.
DemoEmails == {AdminChars \o DemoSuffix, <<"v">> \o DemoSuffix}

\* The accounts of the auth service, and the role in the document
\* users/{uid} of each; "none" where the document does not exist yet.
Accounts ==
    { [uid |-> "ann", email |-> <<"a", "@", "x", ".", "i", "o">>],
      [uid |-> "bob", email |-> <<"b", "@", "x", ".", "i", "o">>],
      [uid |-> "cy", email |-> <<"c", "@", "x", ".", "i", "o">>],
      [uid |-> "dee", email |-> AdminChars \o <<"@", "x", ".", "i", "o">>] }

RoleDocument(uid) ==
    CASE uid = "ann" -> "admin"
      [] uid = "bob" -> "editor"
      [] uid = "cy" -> "viewer"
      [] OTHER -> "none"

\* The mock user login() builds for a demo address.
MockUser(email) == [uid |-> "demo-user-123", email |-> email]

\* user.email?.includes('admin') ? 'admin' : 'viewer'
MockRole(email) == IF includes(email, AdminChars) THEN "admin" ELSE "viewer"

\* What the handlers of AuthProvider leave alone.
notAuth ==
    << importVars, entryVars, chartVars, viewVars, probe, template, builderVars >>

\* The callback of onAuthStateChanged up to its await, or to its end when
\* the user is null.
authStateChanged ==
    /\ authEvents # <<>>
    /\ LET user == Head(authEvents)
       IN  IF user # NoUser
           THEN /\ mockUserItem' = NoUser
                /\ currentUser' = user
                /\ roleFetches' = Append(roleFetches, user)
                /\ UNCHANGED << userRole, authLoading >>
           ELSE /\ IF storedUser = NoUser
                   THEN currentUser' = NoUser /\ userRole' = "null"
                   ELSE UNCHANGED << currentUser, userRole >>
                /\ authLoading' = FALSE
                /\ UNCHANGED << mockUserItem, roleFetches >>
    /\ authEvents' = Tail(authEvents)
    /\ UNCHANGED << storedUser, authUser, signingOut, loggedOut, route, notAuth >>

\* The role the callback sets once getDoc (and setDoc for a new profile) has
\* answered, or has failed.
FetchedRole(user, ok) ==
    IF ok /\ RoleDocument(user.uid) # "none" THEN RoleDocument(user.uid)
    ELSE "viewer"

\* The callback of onAuthStateChanged after its await.
roleFetched(k, ok) ==
    /\ k \in 1..Len(roleFetches)
    /\ userRole' = FetchedRole(roleFetches[k], ok)
    /\ authLoading' = FALSE
    /\ roleFetches' = RemoveAt(roleFetches, k)
    /\ UNCHANGED << currentUser, mockUserItem, storedUser, authUser, authEvents,
                    signingOut, loggedOut, route, notAuth >>

\* The auth service takes a user (or none): its listeners are notified when
\* the user changes.
Notified(user) == IF user # authUser THEN Append(authEvents, user) ELSE authEvents

\* login(email, password) with a demo address.
loginMock(email) ==
    /\ endsWith(email, DemoSuffix)
    /\ currentUser' = MockUser(email)
    /\ userRole' = MockRole(email)
    /\ mockUserItem' = MockUser(email)
    /\ loggedOut' = FALSE
    /\ UNCHANGED << authLoading, storedUser, authUser, authEvents, roleFetches,
                    signingOut, route, notAuth >>

\* login(email, password) with any other address, and loginWithGoogle: the
\* item is removed, then the auth service signs the account in, or refuses.
login(account, ok) ==
    /\ ~endsWith(account.email, DemoSuffix)
    /\ Len(authEvents) + Len(roleFetches) < MaxAuthPending
    /\ mockUserItem' = NoUser
    /\ IF ok
       THEN /\ authUser' = account
            /\ authEvents' = Notified(account)
            /\ loggedOut' = FALSE
       ELSE UNCHANGED << authUser, authEvents, loggedOut >>
    /\ UNCHANGED << currentUser, userRole, authLoading, storedUser, roleFetches,
                    signingOut, route, notAuth >>

\* logout() up to its await.
logout ==
    /\ ~signingOut
    /\ mockUserItem' = NoUser
    /\ signingOut' = TRUE
    /\ UNCHANGED << currentUser, userRole, authLoading, storedUser, authUser,
                    authEvents, roleFetches, loggedOut, route, notAuth >>

\* signOut answers: it resolves, or it throws and the catch block clears the
\* user; handleLogout then navigates to /login.
signOutSettle(ok) ==
    /\ signingOut
    /\ Len(authEvents) + Len(roleFetches) < MaxAuthPending
    /\ IF ok
       THEN /\ authUser' = NoUser
            /\ authEvents' = Notified(NoUser)
            /\ UNCHANGED << currentUser, userRole >>
       ELSE /\ currentUser' = NoUser
            /\ userRole' = "null"
            /\ UNCHANGED << authUser, authEvents >>
    /\ signingOut' = FALSE
    /\ loggedOut' = TRUE
    /\ route' = "/login"
    /\ UNCHANGED << authLoading, mockUserItem, storedUser, roleFetches, notAuth >>

\* The routes of App wrapped in ProtectedRoute, and the allowedRoles each
\* declares ({} where it declares none).
ProtectedPaths == {"/", "/analysis", "/form-builder", "/data-entry", "/admin"}

allowedRoles(path) ==
    CASE path = "/form-builder" -> {"admin", "editor"}
      [] path = "/admin" -> {"admin"}
      [] OTHER -> {}

\* What ProtectedRoute returns: the spinner, a Navigate, or its children.
ProtectedRoute(allowed) ==
    IF authLoading THEN "spinner"
    ELSE IF currentUser = NoUser THEN "/login"
    ELSE IF allowed # {} /\ userRole # "null" /\ userRole \notin allowed THEN "/"
    ELSE "children"

\* A link, the address bar of the history: the router shows another path.
navigate(path) ==
    /\ path # route
    /\ route' = path
    /\ UNCHANGED << currentUser, userRole, authLoading, mockUserItem, storedUser,
                    authUser, authEvents, roleFetches, signingOut, loggedOut,
                    notAuth >>

\* The Navigate element ProtectedRoute returned takes effect.
followNavigate ==
    /\ route \in ProtectedPaths
    /\ ProtectedRoute(allowedRoles(route)) \in {"/login", "/"}
    /\ route # ProtectedRoute(allowedRoles(route))
    /\ route' = ProtectedRoute(allowedRoles(route))
    /\ UNCHANGED << currentUser, userRole, authLoading, mockUserItem, storedUser,
                    authUser, authEvents, roleFetches, signingOut, loggedOut,
                    notAuth >>

\* AuthProvider is mounted: the mount effect has read the item mockUser, and
\* the auth service is about to report the user it has kept, if any.
InitAuth ==
    /\ selectedForm = NoForm
    /\ ImportIdle
    /\ EntryIdle
    /\ ChartIdle
    /\ probe = NoProbe
    /\ template = NoTemplate
    /\ BuilderIdle
    /\ mockUserItem \in {NoUser} \cup {MockUser(email) : email \in DemoEmails}
    /\ storedUser = mockUserItem
    /\ currentUser = storedUser
    /\ userRole = IF storedUser # NoUser THEN MockRole(storedUser.email) ELSE "null"
    /\ authLoading = (storedUser = NoUser)
    /\ authUser \in {NoUser} \cup Accounts
    /\ authEvents = << authUser >>
    /\ roleFetches = <<>>
    /\ signingOut = FALSE
    /\ loggedOut = FALSE
    /\ route \in {"/", "/admin"}

NextAuth ==
    \/ authStateChanged
    \/ \E k \in 1..Len(roleFetches), ok \in BOOLEAN : roleFetched(k, ok)
    \/ \E email \in DemoEmails : loginMock(email)
    \/ \E account \in Accounts, ok \in BOOLEAN : login(account, ok)
    \/ logout
    \/ \E ok \in BOOLEAN : signOutSettle(ok)
    \/ \E path \in {"/login", "/", "/form-builder", "/admin"} : navigate(path)
    \/ followNavigate

SpecAuth == InitAuth /\ [][NextAuth]_vars

\* ---------------------------------------------- authentication: claims

\* The role of the signed-in user: that of the mock user, or the one in the
\* user's role document (viewer for a new profile).
C28_RoleOf(user) ==
    IF user.uid = "demo-user-123" THEN MockRole(user.email)
    ELSE FetchedRole(user, TRUE)

\* C28: ProtectedRoute never renders the children of a route that declares
\* allowedRoles to a signed-in user whose role is not among them, the time
\* in which the role is still being fetched included.
C28_NoChildrenWithoutRole ==
    \A path \in {"/admin", "/form-builder"} :
        (/\ route = path
         /\ currentUser # NoUser
         /\ ProtectedRoute(allowedRoles(path)) = "children")
            => C28_RoleOf(currentUser) \in allowedRoles(path)

\* C29: once logout() has completed and the auth-state callbacks it caused
\* have run, currentUser and userRole are null and every protected route
\* redirects to /login, for real and for mock sessions.
C29_LoggedOutIsNull ==
    (loggedOut /\ ~signingOut /\ authEvents = <<>> /\ roleFetches = <<>>) =>
        /\ currentUser = NoUser
        /\ userRole = "null"
        /\ \A path \in ProtectedPaths : ProtectedRoute(allowedRoles(path)) = "/login"

\* ----------------------------------------- manual entry: more claims

\* C30: at most one store write started by handleSubmit is in flight at a
\* time, whether the save button or the Enter key on the last field
\* submits, so one entered row does not create two submissions.
C30_OneWriteInFlight ==
    /\ Len(pending) <= 1
    /\ \A j, k \in 1..Len(pending) :
          (pending[j].editingId = NoId /\ pending[k].editingId = NoId
               /\ pending[j].data = pending[k].data) => j = k

====
